---- MODULE Spec2Model ----
(***************************************************************************)
(* A model of the ccl decoder (package ccl): the cursor lexer, the         *)
(* recursive-descent parser that writes into a typed target, the escape    *)
(* processor and the numeric coercions.                                     *)
(*                                                                         *)
(* Bytes are integers 0..255, buffers are sequences of bytes, and offsets  *)
(* are 0-based as in the Go source (At(d, i) is d[i]).                      *)
(***************************************************************************)
EXTENDS Integers, Sequences, FiniteSets, TLC

VARIABLES
    src,      \* the structured description the input buffer was rendered from
    data,     \* parser.data / lexer.data: the input buffer
    target,   \* the value v points to (the struct being decoded into)
    p,        \* the parser's fields: lexer.i, tok, err, i
    stack,    \* the Go call stack of parse / parseMessage / parseList loops
    result,   \* what Unmarshal returned, once it has returned
    lex       \* the two lexers run over data side by side: cursors and tokens

vars == <<src, data, target, p, stack, result, lex>>

(***************************************************************************)
(* Bytes                                                                   *)
(***************************************************************************)
Printable ==
    << " ", "!", "\"", "#", "$", "%", "&", "'", "(", ")", "*", "+", ",", "-", ".", "/",
       "0", "1", "2", "3", "4", "5", "6", "7", "8", "9", ":", ";", "<", "=", ">", "?",
       "@", "A", "B", "C", "D", "E", "F", "G", "H", "I", "J", "K", "L", "M", "N", "O",
       "P", "Q", "R", "S", "T", "U", "V", "W", "X", "Y", "Z", "[", "\\", "]", "^", "_",
       "(backquote)", "a", "b", "c", "d", "e", "f", "g", "h", "i", "j", "k", "l", "m", "n", "o",
       "p", "q", "r", "s", "t", "u", "v", "w", "x", "y", "z", "{", "|", "}", "~" >>

\* The byte value of a character literal of the source ('a' is Ord["a"]).
Ord ==
    [c \in {Printable[k] : k \in 1..Len(Printable)} \cup {"\t", "\n", "\r"} |->
        IF c = "\t" THEN 9
        ELSE IF c = "\n" THEN 10
        ELSE IF c = "\r" THEN 13
        ELSE 31 + (CHOOSE k \in 1..Len(Printable) : Printable[k] = c)]

\* A []byte("...") literal, written as a tuple of characters.
B(s) == [k \in 1..Len(s) |-> Ord[s[k]]]

At(d, i) == d[i + 1]

\* d[i:j]
Slice(d, i, j) == SubSeq(d, i + 1, j)

\* bytes.HasPrefix(d[i:], pre)
HasPrefixAt(d, i, pre) ==
    /\ i + Len(pre) <= Len(d)
    /\ \A k \in 1..Len(pre) : d[i + k] = pre[k]

\* F applied to x: the body F of a Go block with its local variable x, so
\* that the value is written once however often the block reads it.
With(x, F(_)) == F(x)

\* ss[lo] \o ... \o ss[hi], by halves.
RECURSIVE FlattenRange(_, _, _)
FlattenRange(ss, lo, hi) ==
    IF lo > hi THEN <<>>
    ELSE IF lo = hi THEN ss[lo]
    ELSE FlattenRange(ss, lo, (lo + hi) \div 2) \o FlattenRange(ss, (lo + hi) \div 2 + 1, hi)

Flatten(ss) == FlattenRange(ss, 1, Len(ss))

(***************************************************************************)
(* Errors                                                                  *)
(***************************************************************************)
NoErr == [reason |-> "", line |-> 0, col |-> 0]

\* errEOF is a plain error value: it carries no position.
errEOF == [reason |-> "premature EOF", line |-> 0, col |-> 0]

\* A run-time panic of the Go program (index or slice bounds out of range).
Panic == [reason |-> "panic: index out of range", line |-> 0, col |-> 0]

\* lineColStep, did a carriage return start the column anew.
lineColStepCarriageReturn(lc, b) ==
    IF b = Ord["\n"] THEN <<lc[1] + 1, 1>>
    ELSE IF b = Ord["\r"] THEN <<lc[1], 1>>
    ELSE <<lc[1], lc[2] + 1>>

\* One iteration of the loop of newSyntaxError, for byte b.
lineColStep(lc, b) ==
    IF b = Ord["\n"] THEN <<lc[1] + 1, 1>> ELSE <<lc[1], lc[2] + 1>>

\* F applied to x, with x evaluated before F is entered.
Then(x, F(_)) == CHOOSE r \in {F(v) : v \in {x}} : TRUE

\* The iteration for byte j of d, when j is within the first hi bytes.
lineColAt(d, j, hi, lc) == IF j > hi THEN lc ELSE lineColStep(lc, d[j])

\* The iterations for the bytes lo..hi of d, in order, from line and column
\* lc on: up to four of them at once, else those of the first half of the
\* range and then those of the second.
RECURSIVE lineColLoop(_, _, _, _)
lineColLoop(d, lo, hi, lc) ==
    IF lo > hi THEN lc
    ELSE IF hi - lo < 4
    THEN lineColAt(d, lo + 3, hi, lineColAt(d, lo + 2, hi,
             lineColAt(d, lo + 1, hi, lineColStep(lc, d[lo]))))
    ELSE Then(lineColLoop(d, lo, (lo + hi) \div 2, lc),
              LAMBDA half : lineColLoop(d, (lo + hi) \div 2 + 1, hi, half))

\* The line and column the loop over d[:k] ends with.
lineCol(d, k) == lineColLoop(d, 1, k, <<1, 1>>)

newSyntaxError(d, idx, reason) ==
    IF idx > Len(d) THEN Panic
    ELSE With(lineCol(d, idx), LAMBDA lc :
         [reason |-> reason, line |-> lc[1], col |-> lc[2]])

IsSyntaxError(e) == e.line > 0

(***************************************************************************)
(* Lexer                                                                   *)
(***************************************************************************)
InRange(b, lo, hi) == Ord[lo] <= b /\ b <= Ord[hi]

numFirstByte(b) ==
    \/ b = Ord["-"]
    \/ b = Ord["+"]
    \/ b = Ord["."]
    \/ InRange(b, "0", "9")

numTailByte(b) ==
    \/ numFirstByte(b)
    \/ InRange(b, "a", "z")
    \/ InRange(b, "A", "Z")

fieldFirstByte(b) ==
    \/ b = Ord["_"]
    \/ InRange(b, "a", "z")
    \/ InRange(b, "A", "Z")

fieldTailByte(b) ==
    \/ fieldFirstByte(b)
    \/ InRange(b, "0", "9")

\* unicode.IsSpace(utf8.DecodeRune(d[i:])): the number of bytes of the space
\* rune at i, 0 if there is none.  The one-byte spaces are '\t', '\n', '\v',
\* '\f', '\r' and ' '; U+0085 and U+00A0 are the two-byte ones (the
\* three-byte spaces of Unicode are not modelled).
spaceLen(d, i) ==
    IF At(d, i) \in (9..13) \cup {32} THEN 1
    ELSE IF /\ i + 1 < Len(d)
            /\ At(d, i) = 194
            /\ At(d, i + 1) \in {133, 160} THEN 2
    ELSE 0

\* for ; i < len(d) && d[i] != '\n'; i++ {}
RECURSIVE lineEnd(_, _)
lineEnd(d, i) ==
    IF i < Len(d) /\ At(d, i) # Ord["\n"] THEN lineEnd(d, i + 1) ELSE i

\* for ; i < len(d) && !bytes.HasPrefix(d[i:], "*/"); i++ {}
RECURSIVE commentEnd(_, _)
commentEnd(d, i) ==
    IF i < Len(d) /\ ~HasPrefixAt(d, i, B(<<"*", "/">>)) THEN commentEnd(d, i + 1) ELSE i

RECURSIVE skipSpace(_, _)
skipSpace(d, i) ==
    IF ~(i < Len(d)) THEN i
    ELSE IF HasPrefixAt(d, i, B(<<"#">>)) \/ HasPrefixAt(d, i, B(<<"/", "/">>))
        THEN skipSpace(d, lineEnd(d, i))
    ELSE IF HasPrefixAt(d, i, B(<<"/", "*">>))
        THEN skipSpace(d, commentEnd(d, i) + 2)
    ELSE IF spaceLen(d, i) > 0
        THEN skipSpace(d, i + spaceLen(d, i))
    ELSE i

\* The string scan, were a backslash a byte like any other.
RECURSIVE stringEndNoEscape(_, _, _)
stringEndNoEscape(d, i, q) ==
    IF i < Len(d) /\ At(d, i) # q THEN stringEndNoEscape(d, i + 1, q) ELSE i

\* The string scan of lexer.next: the index the loop stops at.
RECURSIVE stringEnd(_, _, _)
stringEnd(d, i, q) ==
    IF i < Len(d) /\ At(d, i) # q
    THEN stringEnd(d, IF At(d, i) = Ord["\\"] THEN i + 2 ELSE i + 1, q)
    ELSE i

RECURSIVE numEnd(_, _)
numEnd(d, i) == IF i < Len(d) /\ numTailByte(At(d, i)) THEN numEnd(d, i + 1) ELSE i

RECURSIVE fieldEnd(_, _)
fieldEnd(d, i) == IF i < Len(d) /\ fieldTailByte(At(d, i)) THEN fieldEnd(d, i + 1) ELSE i

\* lexer.yield(n) at cursor i: the token {i, d[i:i+n]} and the cursor after it.
yield(d, i, n) ==
    [i |-> i + n, tok |-> [i |-> i, b |-> Slice(d, i, i + n)], err |-> NoErr]

NoToken == [i |-> 0, b |-> <<>>]

lexFail(i, err) == [i |-> i, tok |-> NoToken, err |-> err]

Punctuation == {Ord[c] : c \in {"{", "}", "[", "]", ":", ","}}

Quotes == {Ord["'"], Ord["\""]}

\* lexer.next with the cursor at i0: the cursor after the call, the token and
\* the error.
lexerNext(d, i0) ==
    With(skipSpace(d, i0), LAMBDA i :
    IF i = Len(d) THEN lexFail(i, errEOF)
    ELSE IF i > Len(d) THEN lexFail(i, Panic)
    ELSE IF At(d, i) \in Punctuation THEN yield(d, i, 1)
    ELSE IF At(d, i) \in Quotes THEN
        With(stringEnd(d, i + 1, At(d, i)), LAMBDA e :
        IF e >= Len(d)
        THEN lexFail(i, newSyntaxError(d, i, "unterminated string"))
        ELSE yield(d, i, e + 1 - i))
    ELSE IF numFirstByte(At(d, i)) THEN yield(d, i, numEnd(d, i + 1) - i)
    ELSE IF fieldFirstByte(At(d, i)) THEN yield(d, i, fieldEnd(d, i + 1) - i)
    ELSE lexFail(i, newSyntaxError(d, i, "invalid lexeme")))

(***************************************************************************)
(* The lexer of lexer.go, which pushes its tokens to a consumer            *)
(***************************************************************************)
\* One turn of the loop of lexer.tokens with the cursor at i0, the consumer
\* asking for every token: the cursor after the turn, the token and error
\* handed to yieldTok, and whether the loop ended with its break.
tokensTurn(d, i0) ==
    With(skipSpace(d, i0), LAMBDA i :
    IF i = Len(d) THEN [i |-> i, tok |-> NoToken, err |-> NoErr, done |-> TRUE]
    ELSE IF i > Len(d) THEN [i |-> i, tok |-> NoToken, err |-> Panic, done |-> FALSE]
    ELSE IF At(d, i) \in Punctuation
    THEN [i |-> i + 1, tok |-> [i |-> i, b |-> Slice(d, i, i + 1)],
          err |-> NoErr, done |-> FALSE]
    ELSE IF At(d, i) \in Quotes THEN
        With(stringEnd(d, i + 1, At(d, i)), LAMBDA e :
        IF e >= Len(d)
        THEN [i |-> i, tok |-> NoToken,
              err |-> newSyntaxError(d, i, "unterminated string"), done |-> FALSE]
        ELSE [i |-> e + 1, tok |-> [i |-> i, b |-> Slice(d, i, e + 1)],
              err |-> NoErr, done |-> FALSE])
    ELSE IF numFirstByte(At(d, i))
    THEN With(numEnd(d, i + 1), LAMBDA e :
         [i |-> e, tok |-> [i |-> i, b |-> Slice(d, i, e)], err |-> NoErr, done |-> FALSE])
    ELSE IF fieldFirstByte(At(d, i))
    THEN With(fieldEnd(d, i + 1), LAMBDA e :
         [i |-> e, tok |-> [i |-> i, b |-> Slice(d, i, e)], err |-> NoErr, done |-> FALSE])
    ELSE [i |-> i, tok |-> NoToken,
          err |-> newSyntaxError(d, i, "invalid lexeme"), done |-> FALSE])

\* lexer{data: data} of lexer.go and of the cursor lexer, before their first
\* token: cur is the cursor lexer, push the lexer behind tokens(data).
newLexers ==
    [cur |-> [i |-> 0, toks |-> <<>>, err |-> NoErr],
     push |-> [i |-> 0, toks |-> <<>>, err |-> NoErr, done |-> FALSE]]

(***************************************************************************)
(* Parser: peek and next                                                   *)
(***************************************************************************)
\* parser{lexer: lexer{data: data}, data: data, fieldMap: fields}
newParser == [lexi |-> 0, tok |-> <<>>, err |-> NoErr, i |-> 0]

\* p.peek(): the parser after the call, with the returned token and error.
peek(ps) ==
    IF ps.err # NoErr \/ ps.tok # <<>>
    THEN [p |-> ps, tok |-> ps.tok, err |-> ps.err]
    ELSE With(lexerNext(data, ps.lexi), LAMBDA l :
         IF l.err # NoErr
         THEN [p |-> [ps EXCEPT !.lexi = l.i, !.err = l.err], tok |-> <<>>, err |-> l.err]
         ELSE [p |-> [ps EXCEPT !.lexi = l.i, !.tok = l.tok.b, !.i = l.tok.i],
               tok |-> l.tok.b, err |-> NoErr])

\* p.next()
next(ps) ==
    With(peek(ps), LAMBDA r :
    IF r.err # NoErr
    THEN [p |-> r.p, tok |-> <<>>, err |-> r.err]
    ELSE [p |-> [r.p EXCEPT !.tok = <<>>], tok |-> r.tok, err |-> NoErr])

\* p.error(reason)
perror(ps, reason) == newSyntaxError(data, ps.i, reason)

(***************************************************************************)
(* strconv and unicode/utf8, as far as the decoder uses them               *)
(***************************************************************************)
\* The value of a digit byte in bases up to 16, -1 for any other byte.
digitVal(b) ==
    IF InRange(b, "0", "9") THEN b - Ord["0"]
    ELSE IF InRange(b, "a", "f") THEN b - Ord["a"] + 10
    ELSE IF InRange(b, "A", "F") THEN b - Ord["A"] + 10
    ELSE -1

\* The value of the digit string s in the given base.
RECURSIVE digitsValue(_, _)
digitsValue(s, base) ==
    IF s = <<>> THEN 0
    ELSE (digitsValue(SubSeq(s, 1, Len(s) - 1), base) * base) + digitVal(s[Len(s)])

RECURSIVE stripZeros(_)
stripZeros(s) == IF s # <<>> /\ s[1] = Ord["0"] THEN stripZeros(Tail(s)) ELSE s

\* Whether the digit string's value is at most 2^bitSize - 1.  Values of the
\* model stay below 2^31, so a 64-bit parse is in range whenever the literal
\* has at most 7 significant hex digits or 9 decimal ones; longer literals are
\* outside the model's inputs.
fitsBits(s, base, bitSize) ==
    With(stripZeros(s), LAMBDA sig :
    IF bitSize <= 16 THEN
        /\ Len(sig) <= 5
        /\ digitsValue(sig, base) <= 2 ^ bitSize - 1
    ELSE IF bitSize = 31 THEN
        IF base = 16
        THEN Len(sig) < 8 \/ (Len(sig) = 8 /\ digitVal(sig[1]) < 8)
        ELSE Len(sig) <= 9
    ELSE TRUE)

\* strconv.ParseUint(s, base, bitSize) for base 8, 10 or 16: no sign, no
\* prefix, no underscore is accepted.
ParseUint(s, base, bitSize) ==
    IF s = <<>> \/ \E k \in 1..Len(s) : ~(digitVal(s[k]) \in 0..(base - 1))
    THEN [ok |-> FALSE, n |-> 0]
    ELSE IF ~fitsBits(s, base, bitSize)
    THEN [ok |-> FALSE, n |-> 0]
    ELSE [ok |-> TRUE, n |-> digitsValue(stripZeros(s), base)]

\* A uint64 is the tuple of its four 16-bit limbs, the most significant
\* first; an int64 is the uint64 of the same bits.
Limb == 2 ^ 16

\* uint64(k), for 0 <= k < 2^31
U64(k) == <<0, 0, k \div Limb, k % Limb>>

\* The value of a uint64 below 2^31.
lowInt(x) == (x[3] * Limb) + x[4]

\* x*base + d in 64 bits, and whether the exact result is beyond them.
mulAdd64(x, base, d) ==
    With((x[4] * base) + d, LAMBDA t4 :
    With((x[3] * base) + (t4 \div Limb), LAMBDA t3 :
    With((x[2] * base) + (t3 \div Limb), LAMBDA t2 :
    With((x[1] * base) + (t2 \div Limb), LAMBDA t1 :
    [n |-> <<t1 % Limb, t2 % Limb, t3 % Limb, t4 % Limb>>, over |-> t1 >= Limb]))))

\* The digits s[lo..hi] appended to the number r read so far.
RECURSIVE digits64(_, _, _, _, _)
digits64(s, base, lo, hi, r) ==
    IF lo > hi \/ ~r.ok THEN r
    ELSE IF lo = hi THEN
        With(mulAdd64(r.n, base, digitVal(s[lo])), LAMBDA m : [ok |-> ~m.over, n |-> m.n])
    ELSE Then(digits64(s, base, lo, (lo + hi) \div 2, r),
              LAMBDA half : digits64(s, base, (lo + hi) \div 2 + 1, hi, half))

\* strconv.ParseUint(s, base, 64): the uint64, or a syntax or range error.
ParseUint64(s, base) ==
    IF s = <<>> \/ \E k \in 1..Len(s) : ~(digitVal(s[k]) \in 0..(base - 1))
    THEN [ok |-> FALSE, n |-> U64(0)]
    ELSE With(digits64(s, base, 1, Len(s), [ok |-> TRUE, n |-> U64(0)]), LAMBDA r :
         IF r.ok THEN r ELSE [ok |-> FALSE, n |-> U64(0)])

\* a > b for two uint64
gt64(a, b) ==
    \E k \in 1..4 : a[k] > b[k] /\ \A j \in 1..(k - 1) : a[j] = b[j]

\* -x in 64 bits: the complement of x plus one.
neg64(x) == mulAdd64([k \in 1..4 |-> Limb - 1 - x[k]], 1, 1).n

\* int64(sgn) * int64(x) for sgn 1 or -1, in 64 bits.
mulSign64(sgn, x) == IF sgn < 0 THEN neg64(x) ELSE x

\* The value of an int64 whose magnitude is below 2^31.
signedInt(x) == IF x[1] >= Limb \div 2 THEN 0 - lowInt(neg64(x)) ELSE lowInt(x)

\* The number of leading decimal digits of s.
RECURSIVE digitRun(_)
digitRun(s) ==
    IF s # <<>> /\ InRange(s[1], "0", "9") THEN 1 + digitRun(Tail(s)) ELSE 0

Drop(s, n) == SubSeq(s, n + 1, Len(s))

IsSign(b) == b = Ord["-"] \/ b = Ord["+"]

IsExpMark(b) == b = Ord["e"] \/ b = Ord["E"]

(***************************************************************************)
(* Numbers                                                                 *)
(***************************************************************************)
checkNum(b0) ==
    With(IF IsSign(b0[1]) THEN Tail(b0) ELSE b0, LAMBDA b1 :
    IF b1 = B(<<"0">>) THEN TRUE
    ELSE IF Len(b1) = 0 \/ ~(b1[1] = Ord["."] \/ InRange(b1[1], "1", "9")) THEN FALSE
    ELSE
        With(digitRun(b1), LAMBDA k1 :
        With(Drop(b1, k1), LAMBDA b2 :
        With(Len(b2) > 0 /\ b2[1] = Ord["."], LAMBDA dot :
        With(IF dot THEN digitRun(Tail(b2)) ELSE 0, LAMBDA k2 :
        With(IF dot THEN Drop(Tail(b2), k2) ELSE b2, LAMBDA b3 :
        IF ~(k1 > 0 \/ k2 > 0) THEN FALSE
        ELSE IF Len(b3) = 0 \/ ~IsExpMark(b3[1]) THEN TRUE
        ELSE
            With(Tail(b3), LAMBDA b4 :
            With(IF Len(b4) > 0 /\ IsSign(b4[1]) THEN Tail(b4) ELSE b4, LAMBDA b5 :
            IF Len(b5) = 0 THEN FALSE
            ELSE Drop(b5, digitRun(b5)) = <<>>))))))))

\* integer{n, sgn}
integer(n, sgn) == [n |-> n, sgn |-> sgn]

\* parser.parseInt: the integer and the reason of the error ("" when none).
parseInt(numBytes) ==
    With(IF numBytes[1] = Ord["-"] THEN -1 ELSE 1, LAMBDA sgn :
    With(IF IsSign(numBytes[1]) THEN Tail(numBytes) ELSE numBytes, LAMBDA n :
    IF Len(n) > 2 /\ n[1] = Ord["0"] /\ (n[2] = Ord["x"] \/ n[2] = Ord["X"]) THEN
        With(ParseUint64(Drop(n, 2), 16), LAMBDA r :
        IF ~r.ok THEN [v |-> integer(U64(0), 0), err |-> "invalid hex number"]
        ELSE [v |-> integer(r.n, sgn), err |-> ""])
    ELSE IF ~checkNum(numBytes) THEN [v |-> integer(U64(0), 0), err |-> "invalid number"]
    ELSE
        With(ParseUint64(n, 10), LAMBDA r :
        IF ~r.ok THEN [v |-> integer(U64(0), 0), err |-> "invalid number (unreachable)"]
        ELSE [v |-> integer(r.n, sgn), err |-> ""])))

\* A float64 is kept as the decimal m * 10^e it was read from, with the
\* trailing zeros of m moved into e (rounding to the nearest float64 is not
\* modelled; -0 and 0 are one value).
RECURSIVE normFloat(_, _)
normFloat(m, e) ==
    IF m = 0 THEN [m |-> 0, e |-> 0]
    ELSE IF m % 10 = 0 THEN normFloat(m \div 10, e + 1)
    ELSE [m |-> m, e |-> e]

RECURSIVE numDigits(_)
numDigits(m) == IF m < 10 THEN 1 ELSE 1 + numDigits(m \div 10)

\* The first three digits of m > 0, padded with zeros on the right.
RECURSIVE lead3(_)
lead3(m) == IF m >= 1000 THEN lead3(m \div 10) ELSE IF m < 100 THEN lead3(m * 10) ELSE m

\* strconv.ParseFloat(s, 64) on decimal syntax: [sign] digits [. digits]
\* [e|E [sign] digits] with a digit in the mantissa.  err is "syntax" or
\* "range" (the magnitude reaches 1.8e308), "" when the value is returned.
ParseFloat(s) ==
    With(s # <<>> /\ s[1] = Ord["-"], LAMBDA neg :
    With(IF s # <<>> /\ IsSign(s[1]) THEN Tail(s) ELSE s, LAMBDA b1 :
    With(digitRun(b1), LAMBDA k1 :
    With(Drop(b1, k1), LAMBDA b2 :
    With(Len(b2) > 0 /\ b2[1] = Ord["."], LAMBDA dot :
    With(IF dot THEN digitRun(Tail(b2)) ELSE 0, LAMBDA k2 :
    With(IF dot THEN Drop(Tail(b2), k2) ELSE b2, LAMBDA b3 :
    With(Len(b3) > 0 /\ IsExpMark(b3[1]), LAMBDA hasExp :
    With(IF hasExp THEN Tail(b3) ELSE b3, LAMBDA b4 :
    With(hasExp /\ Len(b4) > 0 /\ b4[1] = Ord["-"], LAMBDA eneg :
    With(IF hasExp /\ Len(b4) > 0 /\ IsSign(b4[1]) THEN Tail(b4) ELSE b4, LAMBDA b5 :
    With(IF hasExp THEN digitRun(b5) ELSE 0, LAMBDA k3 :
    With(digitsValue(SubSeq(b1, 1, k1) \o (IF dot THEN SubSeq(Tail(b2), 1, k2) ELSE <<>>), 10),
         LAMBDA mant :
    With(digitsValue(SubSeq(b5, 1, k3), 10), LAMBDA ex :
    With(normFloat(mant, (IF eneg THEN -ex ELSE ex) - k2), LAMBDA f :
    With(numDigits(f.m) + f.e - 1, LAMBDA top :
    IF k1 + k2 = 0 \/ (hasExp /\ k3 = 0) \/ Drop(b5, k3) # <<>>
    THEN [v |-> [m |-> 0, e |-> 0], err |-> "syntax"]
    ELSE IF f.m # 0 /\ (top > 308 \/ (top = 308 /\ lead3(f.m) >= 180))
    THEN [v |-> [m |-> 0, e |-> 0], err |-> "range"]
    ELSE [v |-> [m |-> IF neg THEN -f.m ELSE f.m, e |-> f.e], err |-> ""]))))))))))))))))

\* parser.parseFloat
parseFloat(nBytes) ==
    IF ~checkNum(nBytes) THEN [v |-> [m |-> 0, e |-> 0], err |-> "invalid number"]
    ELSE With(ParseFloat(nBytes), LAMBDA r :
         IF r.err # "" THEN [v |-> [m |-> 0, e |-> 0], err |-> "invalid number (unreachable)"]
         ELSE [v |-> r.v, err |-> ""])

\* math.MaxInt64 and math.MaxUint64
MaxInt64 == <<Limb \div 2 - 1, Limb - 1, Limb - 1, Limb - 1>>

MaxUint64 == <<Limb - 1, Limb - 1, Limb - 1, Limb - 1>>

\* intLimits, were the most negative value of a signed kind the negative of
\* its greatest.
intLimitsSymmetric(kind) ==
    CASE kind = "int8" -> [min |-> U64(2 ^ 7 - 1), max |-> U64(2 ^ 7 - 1), ok |-> TRUE]
      [] kind = "int16" -> [min |-> U64(2 ^ 15 - 1), max |-> U64(2 ^ 15 - 1), ok |-> TRUE]
      [] kind = "int64" -> [min |-> MaxInt64, max |-> MaxInt64, ok |-> TRUE]
      [] kind = "uint8" -> [min |-> U64(0), max |-> U64(2 ^ 8 - 1), ok |-> TRUE]
      [] kind = "uint16" -> [min |-> U64(0), max |-> U64(2 ^ 16 - 1), ok |-> TRUE]
      [] kind = "uint64" -> [min |-> U64(0), max |-> MaxUint64, ok |-> TRUE]
      [] OTHER -> [min |-> U64(0), max |-> U64(0), ok |-> FALSE]

\* intLimits(kind): min is the magnitude of the most negative value, as a
\* uint64.  The target types have the kinds of 8, 16 and 64 bits.
intLimits(kind) ==
    CASE kind = "int8" -> [min |-> U64(2 ^ 7), max |-> U64(2 ^ 7 - 1), ok |-> TRUE]
      [] kind = "int16" -> [min |-> U64(2 ^ 15), max |-> U64(2 ^ 15 - 1), ok |-> TRUE]
      [] kind = "int64" -> [min |-> <<Limb \div 2, 0, 0, 0>>, max |-> MaxInt64, ok |-> TRUE]
      [] kind = "uint8" -> [min |-> U64(0), max |-> U64(2 ^ 8 - 1), ok |-> TRUE]
      [] kind = "uint16" -> [min |-> U64(0), max |-> U64(2 ^ 16 - 1), ok |-> TRUE]
      [] kind = "uint64" -> [min |-> U64(0), max |-> MaxUint64, ok |-> TRUE]
      [] OTHER -> [min |-> U64(0), max |-> U64(0), ok |-> FALSE]

(***************************************************************************)
(* Strings                                                                 *)
(***************************************************************************)
IsCont(b) == b \in 128..191

\* The length of the UTF-8 encoding that starts s, 0 if s starts with an
\* invalid or truncated encoding (unicode/utf8's acceptance table).
runeLen(s) ==
    LET b == s[1]
        second(lo, hi) == Len(s) >= 2 /\ s[2] \in lo..hi
        conts(n) == Len(s) >= n /\ \A k \in 3..n : IsCont(s[k])
    IN
    IF b < 128 THEN 1
    ELSE IF b \in 194..223 THEN IF second(128, 191) THEN 2 ELSE 0
    ELSE IF b = 224 THEN IF second(160, 191) /\ conts(3) THEN 3 ELSE 0
    ELSE IF b = 237 THEN IF second(128, 159) /\ conts(3) THEN 3 ELSE 0
    ELSE IF b \in 225..239 THEN IF second(128, 191) /\ conts(3) THEN 3 ELSE 0
    ELSE IF b = 240 THEN IF second(144, 191) /\ conts(4) THEN 4 ELSE 0
    ELSE IF b \in 241..243 THEN IF second(128, 191) /\ conts(4) THEN 4 ELSE 0
    ELSE IF b = 244 THEN IF second(128, 143) /\ conts(4) THEN 4 ELSE 0
    ELSE 0

\* utf8.Valid
RECURSIVE utf8Valid(_)
utf8Valid(s) ==
    IF s = <<>> THEN TRUE
    ELSE With(runeLen(s), LAMBDA n : n > 0 /\ utf8Valid(Drop(s, n)))

\* utf8.AppendRune(nil, r): a surrogate or a value above U+10FFFF is encoded
\* as U+FFFD.
appendRune(r) ==
    IF r < 128 THEN <<r>>
    ELSE IF r < 2048 THEN <<192 + (r \div 64), 128 + (r % 64)>>
    ELSE IF r \in 55296..57343 \/ r > 1114111 THEN <<239, 191, 189>>
    ELSE IF r < 65536 THEN <<224 + (r \div 4096), 128 + ((r \div 64) % 64), 128 + (r % 64)>>
    ELSE <<240 + (r \div 262144), 128 + ((r \div 4096) % 64),
          128 + ((r \div 64) % 64), 128 + (r % 64)>>

\* unicode.IsControl of the rune utf8.DecodeRune reads at s[i:], for a byte
\* that is not a backslash: the C0 controls and DEL are one byte, the C1
\* controls U+0080..U+009F are the two bytes C2 80 .. C2 9F.
isControlAt(s, i) ==
    \/ At(s, i) < 32
    \/ At(s, i) = 127
    \/ (At(s, i) = 194 /\ i + 1 < Len(s) /\ At(s, i + 1) \in 128..159)

SimpleEscapes ==
    [c \in {"'", "\"", "?", "\\", "a", "b", "f", "n", "r", "t", "v"} |->
        CASE c = "a" -> 7 [] c = "b" -> 8 [] c = "f" -> 12 [] c = "n" -> 10
          [] c = "r" -> 13 [] c = "t" -> 9 [] c = "v" -> 11 [] OTHER -> Ord[c]]

simpleEscape(b) ==
    IF \E c \in DOMAIN SimpleEscapes : Ord[c] = b
    THEN <<SimpleEscapes[CHOOSE c \in DOMAIN SimpleEscapes : Ord[c] = b]>>
    ELSE <<>>

unescFail(reason) == [s |-> <<>>, err |-> reason]

\* A variant of crlfAt that holds at every carriage return.
crAt(rawStr, i) == At(rawStr, i) = Ord["\r"]

\* i+1 < len(rawStr) && rawStr[i] == '\r' && rawStr[i+1] == '\n': the
\* carriage return the loop of unescape skips.
crlfAt(rawStr, i) ==
    i + 1 < Len(rawStr) /\ At(rawStr, i) = Ord["\r"] /\ At(rawStr, i + 1) = Ord["\n"]

\* A variant of hexEscape that takes one hex digit when the byte after it
\* is not one.
hexEscapeUpToTwo(rawStr, i) ==
    IF i + 2 <= Len(rawStr) /\ ParseUint(Slice(rawStr, i, i + 2), 16, 8).ok
    THEN [err |-> "", b |-> ParseUint(Slice(rawStr, i, i + 2), 16, 8).n, i |-> i + 2]
    ELSE IF i + 1 <= Len(rawStr) /\ ParseUint(Slice(rawStr, i, i + 1), 16, 8).ok
    THEN [err |-> "", b |-> ParseUint(Slice(rawStr, i, i + 1), 16, 8).n, i |-> i + 1]
    ELSE [err |-> "invalid hex escape", b |-> 0, i |-> i]

\* case 'x' of unescape, i being the index after the x: the error, the byte
\* and the index after the escape.
hexEscape(rawStr, i) ==
    IF i + 2 > Len(rawStr) THEN [err |-> "invalid hex escape", b |-> 0, i |-> i]
    ELSE With(ParseUint(Slice(rawStr, i, i + 2), 16, 8), LAMBDA r :
         IF ~r.ok THEN [err |-> "invalid hex escape", b |-> 0, i |-> i]
         ELSE [err |-> "", b |-> r.n, i |-> i + 2])

\* The default case of unescape, i being the index after the backslash.
octalEscape(rawStr, i) ==
    IF i + 3 > Len(rawStr) THEN [err |-> "invalid string escape", b |-> 0, i |-> i]
    ELSE With(ParseUint(Slice(rawStr, i, i + 3), 8, 8), LAMBDA r :
         IF ~r.ok THEN [err |-> "invalid octal escape", b |-> 0, i |-> i]
         ELSE [err |-> "", b |-> r.n, i |-> i + 3])

\* The loop of parser.unescape with rawStr, from index i0 with the bytes
\* escaped so far; the final utf8.Valid check is in unescape.
RECURSIVE unescapeFrom(_, _, _)
unescapeFrom(rawStr, i0, escaped) ==
    IF ~(i0 < Len(rawStr)) THEN [s |-> escaped, err |-> ""]
    ELSE IF crlfAt(rawStr, i0) THEN unescapeFrom(rawStr, i0 + 1, escaped)
    ELSE IF At(rawStr, i0) # Ord["\\"] THEN
        IF At(rawStr, i0) # Ord["\t"] /\ At(rawStr, i0) # Ord["\n"] /\ isControlAt(rawStr, i0)
        THEN unescFail("control character must be escaped")
        ELSE unescapeFrom(rawStr, i0 + 1, Append(escaped, At(rawStr, i0)))
    ELSE
        With(i0 + 1, LAMBDA i :
        IF ~(i < Len(rawStr)) THEN unescFail(Panic.reason)
        ELSE IF simpleEscape(At(rawStr, i)) # <<>>
            THEN unescapeFrom(rawStr, i + 1, escaped \o simpleEscape(At(rawStr, i)))
        ELSE IF At(rawStr, i) = Ord["\n"]
            THEN unescapeFrom(rawStr, i + 1, escaped)
        ELSE IF At(rawStr, i) = Ord["\r"] THEN
            IF i + 1 < Len(rawStr) /\ At(rawStr, i + 1) = Ord["\n"]
            THEN unescapeFrom(rawStr, i + 2, escaped)
            ELSE unescFail("invalid escape sequence")
        ELSE IF At(rawStr, i) = Ord["x"] THEN
            With(hexEscape(rawStr, i + 1), LAMBDA h :
            IF h.err # "" THEN unescFail(h.err)
            ELSE unescapeFrom(rawStr, h.i, Append(escaped, h.b)))
        ELSE IF At(rawStr, i) = Ord["u"] \/ At(rawStr, i) = Ord["U"] THEN
            With(IF At(rawStr, i) = Ord["U"] THEN 8 ELSE 4, LAMBDA nBytes :
            IF i + 1 + nBytes > Len(rawStr) THEN unescFail("invalid unicode escape")
            ELSE With(ParseUint(Slice(rawStr, i + 1, i + 1 + nBytes), 16, 31), LAMBDA r :
                 IF ~r.ok THEN unescFail("invalid unicode escape")
                 ELSE unescapeFrom(rawStr, i + 1 + nBytes, escaped \o appendRune(r.n))))
        ELSE
            With(octalEscape(rawStr, i), LAMBDA o :
            IF o.err # "" THEN unescFail(o.err)
            ELSE unescapeFrom(rawStr, o.i, Append(escaped, o.b))))

\* parser.unescape: the decoded bytes and the reason of the error.
unescape(rawStr) ==
    With(unescapeFrom(rawStr, 0, <<>>), LAMBDA r :
    IF r.err # "" THEN r
    ELSE IF ~utf8Valid(r.s) THEN unescFail("string is not UTF-8 encoded")
    ELSE r)

\* parseString, were an error of the peek after a literal returned at once.
RECURSIVE parseStringFailsOnPeek(_, _, _)
parseStringFailsOnPeek(ps, tok, sofar) ==
    With(unescape(Slice(tok, 1, Len(tok) - 1)), LAMBDA ss :
    IF ss.err # "" THEN [p |-> ps, s |-> <<>>, err |-> perror(ps, ss.err)]
    ELSE
        With(peek(ps), LAMBDA nx :
        IF nx.err # NoErr THEN [p |-> nx.p, s |-> <<>>, err |-> nx.err]
        ELSE IF ~(nx.tok[1] \in Quotes)
        THEN [p |-> nx.p, s |-> sofar \o ss.s, err |-> NoErr]
        ELSE parseStringFailsOnPeek(next(nx.p).p, nx.tok, sofar \o ss.s)))

\* parser.parseString(tok): unescapes tok and every string token that
\* follows it.  The parser after the call, the string, and the error with its
\* position (p.error reads p.i, which peek has moved to the last token read).
RECURSIVE parseString(_, _, _)
parseString(ps, tok, sofar) ==
    With(unescape(Slice(tok, 1, Len(tok) - 1)), LAMBDA ss :
    IF ss.err # "" THEN [p |-> ps, s |-> <<>>, err |-> perror(ps, ss.err)]
    ELSE
        With(peek(ps), LAMBDA nx :
        IF nx.err # NoErr \/ ~(nx.tok[1] \in Quotes)
        THEN [p |-> nx.p, s |-> sofar \o ss.s, err |-> NoErr]
        ELSE parseString(next(nx.p).p, nx.tok, sofar \o ss.s)))

\* base64.StdEncoding.DecodeString, in chunks of four characters; '\r' and
\* '\n' are skipped, padding is required and only at the end.
b64Val(b) ==
    IF InRange(b, "A", "Z") THEN b - Ord["A"]
    ELSE IF InRange(b, "a", "z") THEN b - Ord["a"] + 26
    ELSE IF InRange(b, "0", "9") THEN b - Ord["0"] + 52
    ELSE IF b = Ord["+"] THEN 62
    ELSE IF b = Ord["/"] THEN 63
    ELSE -1

RECURSIVE b64Quads(_)
b64Quads(s) ==
    IF s = <<>> THEN [ok |-> TRUE, b |-> <<>>]
    ELSE
        With([k \in 1..4 |-> b64Val(s[k])], LAMBDA v :
        With([k \in 1..4 |-> s[k] = Ord["="]], LAMBDA pad :
        With((v[1] * 4096) + (v[2] * 64) + (IF pad[3] THEN 0 ELSE v[3]), LAMBDA bits :
        IF v[1] < 0 \/ v[2] < 0 THEN [ok |-> FALSE, b |-> <<>>]
        ELSE IF v[3] >= 0 /\ v[4] >= 0 THEN
            With(b64Quads(Drop(s, 4)), LAMBDA rest :
            [ok |-> rest.ok,
             b |-> <<bits \div 1024, (bits \div 4) % 256, ((v[3] % 4) * 64) + v[4]>>
                    \o rest.b])
        ELSE IF Len(s) = 4 /\ v[3] >= 0 /\ pad[4]
            THEN [ok |-> TRUE, b |-> <<bits \div 1024, (bits \div 4) % 256>>]
        ELSE IF Len(s) = 4 /\ pad[3] /\ pad[4]
            THEN [ok |-> TRUE, b |-> <<bits \div 1024>>]
        ELSE [ok |-> FALSE, b |-> <<>>])))

base64Decode(s) ==
    With(SelectSeq(s, LAMBDA b : b # Ord["\r"] /\ b # Ord["\n"]), LAMBDA t :
    IF Len(t) % 4 # 0 THEN [ok |-> FALSE, b |-> <<>>] ELSE b64Quads(t))

(***************************************************************************)
(* Target types.  A Go type is the sequence of its constructors:           *)
(* <<"int16">>, <<"ptr", "struct", "nested">>, <<"slice", "uint8">> ...     *)
(* The target graph is the message struct of the package's tests, with     *)
(* the integer fields at the widths the model's integers can hold.         *)
(***************************************************************************)
Kind(t) == t[1]

Elem(t) == Tail(t)

BytesType == <<"slice", "uint8">>

Tag(name) == [has |-> TRUE, val |-> name]

NoTag == [has |-> FALSE, val |-> <<>>]

Field(goName, tag, ty) == [name |-> goName, tag |-> tag, ty |-> ty]

nInt == B(<<"i", "n", "t">>)

nInt8 == B(<<"i", "n", "t", "8">>)

nInt16 == B(<<"i", "n", "t", "1", "6">>)

nUint8 == B(<<"u", "i", "n", "t", "8">>)

nUint16 == B(<<"u", "i", "n", "t", "1", "6">>)

nFloat == B(<<"f", "l", "o", "a", "t">>)

nString == B(<<"s", "t", "r", "i", "n", "g">>)

nBool == B(<<"b", "o", "o", "l">>)

nMessage == B(<<"m", "e", "s", "s", "a", "g", "e">>)

nField == B(<<"f", "i", "e", "l", "d">>)

nRepeated == B(<<"r", "e", "p", "e", "a", "t", "e", "d">>)

nRepeatedMessage ==
    B(<<"r", "e", "p", "e", "a", "t", "e", "d", "_", "m", "e", "s", "s", "a", "g", "e">>)

nBytes == B(<<"b", "y", "t", "e", "s">>)

StructDefs ==
    [s \in {"message", "nested"} |->
        IF s = "nested"
        THEN << Field(B(<<"F", "i", "e", "l", "d">>), Tag(nField), <<"int16">>) >>
        ELSE << Field(B(<<"I", "n", "t">>), Tag(nInt), <<"int16">>),
                Field(B(<<"I", "n", "t", "8">>), Tag(nInt8), <<"int8">>),
                Field(B(<<"I", "n", "t", "1", "6">>), Tag(nInt16), <<"int16">>),
                Field(B(<<"U", "i", "n", "t", "8">>), Tag(nUint8), <<"uint8">>),
                Field(B(<<"U", "i", "n", "t", "1", "6">>), Tag(nUint16), <<"uint16">>),
                Field(B(<<"F", "l", "o", "a", "t">>), Tag(nFloat), <<"float64">>),
                Field(B(<<"S", "t", "r", "i", "n", "g">>), Tag(nString), <<"string">>),
                Field(B(<<"B", "o", "o", "l">>), Tag(nBool), <<"bool">>),
                Field(B(<<"M", "e", "s", "s", "a", "g", "e">>), Tag(nMessage),
                      <<"ptr", "struct", "nested">>),
                Field(B(<<"R", "e", "p", "e", "a", "t", "e", "d">>), Tag(nRepeated),
                      <<"slice", "int16">>),
                Field(B(<<"R", "e", "p", "e", "a", "t", "e", "d", "M", "e", "s", "s", "a", "g", "e">>),
                      Tag(nRepeatedMessage), <<"slice", "ptr", "struct", "nested">>),
                Field(B(<<"B", "y", "t", "e", "s">>), Tag(nBytes), BytesType),
                Field(B(<<"I", "g", "n", "o", "r", "e">>), Tag(B(<<"-", ",">>)), <<"map">>),
                Field(B(<<"u", "n", "e", "x", "p", "o", "r", "t", "e", "d">>), NoTag,
                      <<"int16">>) >>]

RootType == <<"struct", "message">>

\* The fields of struct type t: those of the two types above, or those of a
\* type that the caller of Unmarshal declared for its target.
fieldsOf(t) == IF t[2] \in DOMAIN StructDefs THEN StructDefs[t[2]] ELSE src.defs[t[2]]

\* The type of field idx of struct type t.
FieldType(t, idx) == fieldsOf(t)[idx].ty

\* reflect.Zero(t)
RECURSIVE Zero(_)
Zero(t) ==
    CASE Kind(t) = "struct" ->
            [k \in 1..Len(fieldsOf(t)) |-> Zero(fieldsOf(t)[k].ty)]
      [] Kind(t) = "ptr" -> [nil |-> TRUE, v |-> <<>>]
      [] Kind(t) \in {"slice", "map"} -> [nil |-> TRUE, elems |-> <<>>]
      [] Kind(t) = "string" -> <<>>
      [] Kind(t) = "bool" -> FALSE
      [] Kind(t) = "float64" -> [m |-> 0, e |-> 0]
      [] Kind(t) \in {"int64", "uint64"} -> U64(0)
      [] OTHER -> 0

\* A reflect.Value inside the target is the path to it from the root: a
\* field index in a struct, an element index (from 1) in a slice, 0 through
\* a pointer.
RECURSIVE typeAt(_, _)
typeAt(t, path) ==
    IF path = <<>> THEN t
    ELSE IF Kind(t) = "struct" THEN typeAt(FieldType(t, path[1]), Tail(path))
    ELSE typeAt(Elem(t), Tail(path))

RECURSIVE getAt(_, _, _)
getAt(v, t, path) ==
    IF path = <<>> THEN v
    ELSE IF Kind(t) = "struct" THEN getAt(v[path[1]], FieldType(t, path[1]), Tail(path))
    ELSE IF Kind(t) = "slice" THEN getAt(v.elems[path[1]], Elem(t), Tail(path))
    ELSE getAt(v.v, Elem(t), Tail(path))

RECURSIVE setAt(_, _, _, _)
setAt(v, t, path, x) ==
    IF path = <<>> THEN x
    ELSE IF Kind(t) = "struct"
        THEN [v EXCEPT ![path[1]] = setAt(v[path[1]], FieldType(t, path[1]), Tail(path), x)]
    ELSE IF Kind(t) = "slice"
        THEN [v EXCEPT !.elems[path[1]] = setAt(v.elems[path[1]], Elem(t), Tail(path), x)]
    ELSE [v EXCEPT !.v = setAt(v.v, Elem(t), Tail(path), x)]

\* The target is val.Elem(), of type val.Type().Elem().
TypeOf(path) == typeAt(src.v.ty, path)

Get(tg, path) == getAt(tg, src.v.ty, path)

Set(tg, path, x) == setAt(tg, src.v.ty, path, x)

\* setPtr, did it allocate a new pointee whether or not the pointer is nil.
setPtrAlwaysNew(tg, path) ==
    IF Kind(TypeOf(path)) # "ptr" THEN [target |-> tg, path |-> path]
    ELSE [target |-> Set(tg, path, [nil |-> FALSE, v |-> Zero(Elem(TypeOf(path)))]),
          path |-> Append(path, 0)]

\* setPtr(val): the target after the call and the path of the value returned.
setPtr(tg, path) ==
    IF Kind(TypeOf(path)) # "ptr" THEN [target |-> tg, path |-> path]
    ELSE [target |-> IF Get(tg, path).nil
                     THEN Set(tg, path, [nil |-> FALSE, v |-> Zero(Elem(TypeOf(path)))])
                     ELSE tg,
          path |-> Append(path, 0)]

(***************************************************************************)
(* Schema derivation                                                       *)
(***************************************************************************)
IsUpper(b) == InRange(b, "A", "Z")

\* reflect.StructField.IsExported
IsExported(f) == IsUpper(f.name[1])

\* The index of the first sep in s, 0 if there is none.
indexByte(s, sep) ==
    IF \A k \in 1..Len(s) : s[k] # sep THEN 0
    ELSE CHOOSE k \in 1..Len(s) : s[k] = sep /\ \A j \in 1..(k - 1) : s[j] # sep

\* strings.Cut(tag, ",")
cutComma(tag) ==
    LET k == indexByte(tag, Ord[","]) IN
    IF k = 0 THEN [before |-> tag, after |-> <<>>]
    ELSE [before |-> SubSeq(tag, 1, k - 1), after |-> Drop(tag, k)]

\* hasOption, were every byte after the first comma an option.
hasOptionAnyRest(opts) == opts # <<>>

\* Whether strings.FieldsFuncSeq(opts, r == ',') yields anything.
hasOption(opts) == \E k \in 1..Len(opts) : opts[k] # Ord[","]

structField(ty, name) == [ty |-> ty, name |-> name]

\* fieldMap(out, types, s).  st holds out (the entries: structField and its
\* index), types and the error returned ("" for nil).
\* The struct type fieldMap goes into for a field of type ft: ft itself, or
\* what a pointer, a slice or a slice of pointers holds; <<>> if none.
structOf(ft) ==
    IF Kind(ft) = "struct" THEN ft
    ELSE IF Kind(ft) \in {"ptr", "slice"} /\ Kind(Elem(ft)) = "struct" THEN Elem(ft)
    ELSE IF Kind(ft) = "slice" /\ Kind(Elem(ft)) = "ptr" /\ Kind(Elem(Elem(ft))) = "struct"
        THEN Elem(Elem(ft))
    ELSE <<>>

RECURSIVE fieldMap(_, _)
RECURSIVE fieldMapField(_, _, _)
RECURSIVE fieldMapLoop(_, _, _, _)
\* fieldMap, were a type remembered only while its own fields are processed.
fieldMapOnStack(st, s) ==
    IF s \in st.types THEN st
    ELSE [fieldMapLoop([st EXCEPT !.types = @ \cup {s}], s, 1, Len(fieldsOf(s)))
            EXCEPT !.types = st.types]

fieldMap(st, s) ==
    IF s \in st.types THEN st
    ELSE fieldMapLoop([st EXCEPT !.types = @ \cup {s}], s, 1, Len(fieldsOf(s)))

\* One iteration of the loop of fieldMap, for field i of s.
fieldMapField(st, s, i) ==
    With(fieldsOf(s)[i], LAMBDA field :
    With(cutComma(field.tag.val), LAMBDA cut :
    With(IF field.tag.has THEN cut.before ELSE field.name, LAMBDA fieldName :
    IF ~IsExported(field) THEN st
    ELSE IF field.tag.has /\ fieldName = B(<<"-">>) THEN st
    ELSE IF field.tag.has /\ hasOption(cut.after)
        THEN [st EXCEPT !.err = "unknown option"]
    ELSE IF \E e \in st.out : e.key = structField(s, fieldName)
        THEN [st EXCEPT !.err = "multiple fields with name"]
    ELSE
        With([st EXCEPT !.out = @ \cup {[key |-> structField(s, fieldName), idx |-> i]}],
             LAMBDA st1 :
        IF structOf(field.ty) = <<>> THEN st1 ELSE fieldMap(st1, structOf(field.ty))))))

\* The iterations lo..hi of the loop, in order, up to the first that returns
\* an error: those of the first half of the range, then those of the second.
fieldMapLoop(st, s, lo, hi) ==
    IF st.err # "" \/ lo > hi THEN st
    ELSE IF lo = hi THEN fieldMapField(st, s, lo)
    ELSE fieldMapLoop(fieldMapLoop(st, s, lo, (lo + hi) \div 2), s, (lo + hi) \div 2 + 1, hi)

\* parser.fieldMap: the map Unmarshal derived from the type of its target.  It
\* never changes during a decode, so it is read off the target's type
\* rather than carried in the parser's state.
parserFieldMap == fieldMap([out |-> {}, types |-> {}, err |-> ""], src.v.ty).out

\* lookupField, were a name without an entry taken for the first field.
lookupFieldOrFirst(fm, ty, name) ==
    With({e \in fm : e.key = structField(ty, name)}, LAMBDA es :
    IF es = {} THEN 1 ELSE (CHOOSE e \in es : TRUE).idx)

\* p.fieldMap[structField{ty, name}]: the index, 0 when there is no entry.
lookupField(fm, ty, name) ==
    With({e \in fm : e.key = structField(ty, name)}, LAMBDA es :
    IF es = {} THEN 0 ELSE (CHOOSE e \in es : TRUE).idx)

(***************************************************************************)
(* Parser: values                                                          *)
(*                                                                         *)
(* Each operator returns the parser and the target after the call, the     *)
(* error returned (NoErr for nil) and, when the call went into             *)
(* parseMessage or parseList, the frame of that call: its loop runs as     *)
(* steps of its own and everything above it only passes its result on.     *)
(***************************************************************************)
NoCall == [fn |-> "", path |-> <<>>]

Outcome(ps, tg, err, call) == [p |-> ps, target |-> tg, err |-> err, call |-> call]

Fail(ps, tg, reason) == Outcome(ps, tg, perror(ps, reason), NoCall)

\* bytes.ContainsAny(tok, ".eE")
containsDotOrExp(tok) == \E k \in 1..Len(tok) : tok[k] = Ord["."] \/ IsExpMark(tok[k])

\* The entry of parser.parseMessage(out, field), up to its loop.
parseMessage(ps, tg, path) ==
    With(setPtr(tg, path), LAMBDA sp :
    IF Kind(TypeOf(sp.path)) # "struct"
    THEN Fail(ps, sp.target, "field should be a struct")
    ELSE Outcome(ps, sp.target, NoErr, [fn |-> "parseMessage", path |-> sp.path]))

\* unpackBool, had it no check of the kind of the field.
unpackBoolAnyKind(ps, tg, path, b) == Outcome(ps, tg, NoErr, NoCall)

\* parser.unpackBool
unpackBool(ps, tg, path, b) ==
    With(setPtr(tg, path), LAMBDA sp :
    IF Kind(TypeOf(sp.path)) # "bool"
    THEN Fail(ps, sp.target, "field should have type bool")
    ELSE Outcome(ps, Set(sp.target, sp.path, b), NoErr, NoCall))

\* The string case of parser.parseVal.  No type of the target graph
\* implements encoding.TextUnmarshaler.
parseStringVal(ps, tg, path, tok) ==
    With(parseString(ps, tok, <<>>), LAMBDA r :
    IF r.err # NoErr THEN Outcome(r.p, tg, r.err, NoCall)
    ELSE
        With(setPtr(tg, path), LAMBDA sp :
        IF Kind(TypeOf(sp.path)) = "string"
            THEN Outcome(r.p, Set(sp.target, sp.path, r.s), NoErr, NoCall)
        ELSE IF TypeOf(sp.path) = BytesType THEN
            With(base64Decode(r.s), LAMBDA dec :
            IF ~dec.ok THEN Fail(r.p, sp.target, "bad base64")
            ELSE Outcome(r.p, Set(sp.target, sp.path, [nil |-> FALSE, elems |-> dec.b]),
                         NoErr, NoCall))
        ELSE Fail(r.p, sp.target, "field should have type string")))

\* The fractional case of parser.parseVal.
parseFloatVal(ps, tg, path, tok) ==
    With(parseFloat(tok), LAMBDA n :
    IF n.err # "" THEN Fail(ps, tg, n.err)
    ELSE
        With(setPtr(tg, path), LAMBDA sp :
        IF Kind(TypeOf(sp.path)) = "float64"
            THEN Outcome(ps, Set(sp.target, sp.path, n.v), NoErr, NoCall)
        ELSE Fail(ps, sp.target, "field should have type float64 or float32")))

\* What reflect.Value.SetUint and SetInt store in a slot of the given kind:
\* a slot of 64 bits holds the 64 bits, a narrower one the integer (the
\* parser stores only values within the limits of the kind).
SetUint(kind, x) == IF kind = "uint64" THEN x ELSE lowInt(x)

SetInt(kind, x) == IF kind = "int64" THEN x ELSE signedInt(x)

\* The integer case of parser.parseVal.
parseIntVal(ps, tg, path, tok) ==
    With(parseInt(tok), LAMBDA r :
    IF r.err # "" THEN Fail(ps, tg, r.err)
    ELSE
        With(r.v, LAMBDA n :
        With(setPtr(tg, path), LAMBDA sp :
        With(Kind(TypeOf(sp.path)), LAMBDA kind :
        IF kind = "float64"
            THEN Outcome(ps, Set(sp.target, sp.path, normFloat(n.sgn * lowInt(n.n), 0)),
                         NoErr, NoCall)
        ELSE
            With(intLimits(kind), LAMBDA lim :
            IF ~lim.ok THEN Fail(ps, sp.target, "field should have type int")
            ELSE IF (n.sgn < 0 /\ gt64(n.n, lim.min)) \/ (n.sgn > 0 /\ gt64(n.n, lim.max))
                THEN Fail(ps, sp.target, "number is out of range")
            ELSE IF lim.min = U64(0)
                THEN Outcome(ps, Set(sp.target, sp.path, SetUint(kind, n.n)), NoErr, NoCall)
            ELSE Outcome(ps, Set(sp.target, sp.path, SetInt(kind, mulSign64(n.sgn, n.n))),
                         NoErr, NoCall))))))

\* parser.parseVal(fieldVal, tok, field)
parseVal(ps, tg, path, tok) ==
    IF tok[1] = Ord["["] THEN Fail(ps, tg, "invalid repeated value")
    ELSE IF tok[1] = Ord["{"] THEN parseMessage(ps, tg, path)
    ELSE IF tok[1] \in Quotes THEN parseStringVal(ps, tg, path, tok)
    ELSE IF tok = B(<<"t", "r", "u", "e">>) THEN unpackBool(ps, tg, path, TRUE)
    ELSE IF tok = B(<<"f", "a", "l", "s", "e">>) THEN unpackBool(ps, tg, path, FALSE)
    ELSE IF containsDotOrExp(tok) THEN parseFloatVal(ps, tg, path, tok)
    ELSE parseIntVal(ps, tg, path, tok)

\* A variant of appendZero that puts the new element in front.
appendZeroInFront(tg, path) ==
    Set(tg, path, [nil |-> FALSE,
                   elems |-> <<Zero(Elem(TypeOf(path)))>> \o Get(tg, path).elems])

\* reflect.Append(fieldVal, reflect.Zero(elem)) stored back into fieldVal
appendZero(tg, path) ==
    Set(tg, path, [nil |-> FALSE,
                   elems |-> Append(Get(tg, path).elems, Zero(Elem(TypeOf(path))))])

\* The path of fieldVal.Index(fieldVal.Len()-1)
lastElem(tg, path) == Append(path, Len(Get(tg, path).elems))

\* A variant of parseList that leaves a nil slice as it is.
parseListKeepsNil(ps, tg, path) ==
    Outcome(ps, tg, NoErr, [fn |-> "parseList", path |-> path])

\* The entry of parser.parseList(fieldVal, field), up to its loop.
parseList(ps, tg, path) ==
    Outcome(ps,
            IF Get(tg, path).nil THEN Set(tg, path, [nil |-> FALSE, elems |-> <<>>]) ELSE tg,
            NoErr, [fn |-> "parseList", path |-> path])

\* A variant of parsePossiblyRepeatedVal that takes []byte for a repeated
\* field like any other slice.
parsePossiblyRepeatedValAnySlice(ps, tg, parsedFields, path, tok, field) ==
    IF Kind(TypeOf(path)) = "slice" THEN
        [out |-> IF tok[1] = Ord["["] THEN parseList(ps, tg, path)
                 ELSE With(appendZero(tg, path), LAMBDA t1 :
                      parseVal(ps, t1, lastElem(t1, path), tok)),
         seen |-> parsedFields]
    ELSE IF field \in parsedFields THEN
        [out |-> Fail(ps, tg, "duplicate field but type is not repeated"),
         seen |-> parsedFields]
    ELSE
        [out |-> parseVal(ps, tg, path, tok), seen |-> parsedFields \cup {field}]

\* parser.parsePossiblyRepeatedVal: the outcome and parsedFields after the call.
parsePossiblyRepeatedVal(ps, tg, parsedFields, path, tok, field) ==
    IF Kind(TypeOf(path)) = "slice" /\ TypeOf(path) # BytesType THEN
        [out |-> IF tok[1] = Ord["["] THEN parseList(ps, tg, path)
                 ELSE With(appendZero(tg, path), LAMBDA t1 :
                      parseVal(ps, t1, lastElem(t1, path), tok)),
         seen |-> parsedFields]
    ELSE IF field \in parsedFields THEN
        [out |-> Fail(ps, tg, "duplicate field but type is not repeated"),
         seen |-> parsedFields]
    ELSE
        [out |-> parseVal(ps, tg, path, tok), seen |-> parsedFields \cup {field}]

\* parseFieldVal, had it a case for '[' beside the one for '{'.
parseFieldValListNoColon(ps, tg, parsedFields, path, field) ==
    IF ~fieldFirstByte(field[1])
        THEN [out |-> Fail(ps, tg, "expecting field"), seen |-> parsedFields]
    ELSE
    With(lookupField(parserFieldMap, TypeOf(path), field), LAMBDA fieldIdx :
    IF fieldIdx = 0
        THEN [out |-> Fail(ps, tg, "no field named"), seen |-> parsedFields]
    ELSE
    With(Append(path, fieldIdx), LAMBDA fieldVal :
    With(next(ps), LAMBDA n1 :
    IF n1.err # NoErr
        THEN [out |-> Outcome(n1.p, tg, n1.err, NoCall), seen |-> parsedFields]
    ELSE IF n1.tok[1] \in {Ord["{"], Ord["["]}
        THEN parsePossiblyRepeatedVal(n1.p, tg, parsedFields, fieldVal, n1.tok, field)
    ELSE IF n1.tok[1] = Ord[":"] THEN
        With(next(n1.p), LAMBDA n2 :
        IF n2.err # NoErr
        THEN [out |-> Outcome(n2.p, tg, n2.err, NoCall), seen |-> parsedFields]
        ELSE parsePossiblyRepeatedVal(n2.p, tg, parsedFields, fieldVal, n2.tok, field))
    ELSE [out |-> Fail(n1.p, tg, "expecting colon"), seen |-> parsedFields])))

\* parser.parseFieldVal(out, parsedFields, field), out being the struct at
\* path.
parseFieldVal(ps, tg, parsedFields, path, field) ==
    IF ~fieldFirstByte(field[1])
        THEN [out |-> Fail(ps, tg, "expecting field"), seen |-> parsedFields]
    ELSE
    With(lookupField(parserFieldMap, TypeOf(path), field), LAMBDA fieldIdx :
    IF fieldIdx = 0
        THEN [out |-> Fail(ps, tg, "no field named"), seen |-> parsedFields]
    ELSE
    With(Append(path, fieldIdx), LAMBDA fieldVal :
    With(next(ps), LAMBDA n1 :
    IF n1.err # NoErr
        THEN [out |-> Outcome(n1.p, tg, n1.err, NoCall), seen |-> parsedFields]
    ELSE IF n1.tok[1] = Ord["{"]
        THEN parsePossiblyRepeatedVal(n1.p, tg, parsedFields, fieldVal, n1.tok, field)
    ELSE IF n1.tok[1] = Ord[":"] THEN
        With(next(n1.p), LAMBDA n2 :
        IF n2.err # NoErr
        THEN [out |-> Outcome(n2.p, tg, n2.err, NoCall), seen |-> parsedFields]
        ELSE parsePossiblyRepeatedVal(n2.p, tg, parsedFields, fieldVal, n2.tok, field))
    ELSE [out |-> Fail(n1.p, tg, "expecting colon"), seen |-> parsedFields])))

(***************************************************************************)
(* Unmarshal and the parser's loops                                        *)
(***************************************************************************)
\* Frame, were the names seen by the calling loop handed on to the call.
FrameSharingSeen(fn, path) ==
    [fn |-> fn, path |-> path, seen |-> IF stack = <<>> THEN {} ELSE stack[Len(stack)].seen,
     i |-> 0]

\* The frame of a call of parse, parseMessage or parseList: seen is the
\* call's own map of the fields it has parsed, i the index of its loop.
Frame(fn, path) == [fn |-> fn, path |-> path, seen |-> {}, i |-> 0]

Top == stack[Len(stack)]

Running == result.state = "running" /\ stack # <<>>

\* Unmarshal returns err: every active call returns it unchanged.
Return(err) ==
    /\ result' = [state |-> "returned", err |-> err]
    /\ stack' = <<>>

\* A loop of the top frame goes on, its frame updated, into the call (if any)
\* that its body made.
Continue(frame, call) ==
    /\ stack' = [stack EXCEPT ![Len(stack)] = frame]
                    \o (IF call.fn = "" THEN <<>> ELSE <<Frame(call.fn, call.path)>>)
    /\ UNCHANGED result

\* The top call returns nil to the loop that called it.
Pop ==
    /\ stack' = SubSeq(stack, 1, Len(stack) - 1)
    /\ UNCHANGED result

\* Unmarshal, did it have the parser look at the input before it looks at v.
UnmarshalLexesFirst ==
    /\ result.state = "init"
    /\ UNCHANGED <<src, data, target, lex>>
    /\ IF ~src.v.ptr \/ src.v.nil \/ Kind(src.v.ty) # "struct"
       THEN /\ Return([reason |-> "value must be a non-nil pointer to a struct",
                       line |-> 0, col |-> 0])
            /\ p' = peek(newParser).p
       ELSE \E fields \in {fieldMap([out |-> {}, types |-> {}, err |-> ""], src.v.ty)} :
            IF fields.err # ""
            THEN /\ Return([reason |-> fields.err, line |-> 0, col |-> 0])
                 /\ p' = peek(newParser).p
            ELSE /\ p' = newParser
                 /\ stack' = <<Frame("parse", <<>>)>>
                 /\ result' = [state |-> "running", err |-> NoErr]

\* Unmarshal(data, v), up to the call of parser.parse.
Unmarshal ==
    /\ result.state = "init"
    /\ UNCHANGED <<src, data, target, lex>>
    /\ IF ~src.v.ptr \/ src.v.nil \/ Kind(src.v.ty) # "struct"
       THEN /\ Return([reason |-> "value must be a non-nil pointer to a struct",
                       line |-> 0, col |-> 0])
            /\ UNCHANGED p
       ELSE \E fields \in {fieldMap([out |-> {}, types |-> {}, err |-> ""], src.v.ty)} :
            IF fields.err # ""
            THEN /\ Return([reason |-> fields.err, line |-> 0, col |-> 0])
                 /\ UNCHANGED p
            ELSE /\ p' = newParser
                 /\ stack' = <<Frame("parse", <<>>)>>
                 /\ result' = [state |-> "running", err |-> NoErr]

\* FieldStep, were the target restored to its zero value when a field fails.
FieldStepRollsBack(ps, tok) ==
    \E r \in {parseFieldVal(ps, target, Top.seen, Top.path, tok)} :
    /\ p' = r.out.p
    /\ IF r.out.err # NoErr
       THEN /\ target' = Zero(src.v.ty)
            /\ Return(r.out.err)
       ELSE /\ target' = r.out.target
            /\ Continue([Top EXCEPT !.seen = r.seen], r.out.call)

\* parseFieldVal(out, seen, tok) in the body of parse or parseMessage.
FieldStep(ps, tok) ==
    \E r \in {parseFieldVal(ps, target, Top.seen, Top.path, tok)} :
    /\ p' = r.out.p
    /\ target' = r.out.target
    /\ IF r.out.err # NoErr
       THEN Return(r.out.err)
       ELSE Continue([Top EXCEPT !.seen = r.seen], r.out.call)

\* One iteration of the loop of parser.parse.
ParseStep ==
    /\ Running
    /\ Top.fn = "parse"
    /\ UNCHANGED <<src, data, lex>>
    /\ \E n \in {next(p)} :
       IF n.err # NoErr
       THEN /\ p' = n.p
            /\ UNCHANGED target
            /\ Return(IF n.err = errEOF THEN NoErr ELSE n.err)
       ELSE FieldStep(n.p, n.tok)

\* One iteration of the loop of parser.parseMessage.
MessageStep ==
    /\ Running
    /\ Top.fn = "parseMessage"
    /\ UNCHANGED <<src, data, lex>>
    /\ \E n \in {next(p)} :
       IF n.err # NoErr
       THEN /\ p' = n.p
            /\ UNCHANGED target
            /\ Return(n.err)
       ELSE IF n.tok[1] = Ord["}"]
       THEN /\ p' = n.p
            /\ UNCHANGED target
            /\ Pop
       ELSE FieldStep(n.p, n.tok)

\* One iteration of the loop of parser.parseList.
ListStep ==
    /\ Running
    /\ Top.fn = "parseList"
    /\ UNCHANGED <<src, data, lex>>
    /\ \E n1 \in {next(p)} :
       IF n1.err # NoErr
       THEN /\ p' = n1.p /\ UNCHANGED target /\ Return(n1.err)
       ELSE IF n1.tok[1] = Ord["]"]
       THEN /\ p' = n1.p /\ UNCHANGED target /\ Pop
       ELSE IF Top.i > 0 /\ n1.tok[1] # Ord[","]
       THEN /\ p' = n1.p /\ UNCHANGED target /\ Return(perror(n1.p, "expecting comma"))
       ELSE \E n \in {IF Top.i > 0 THEN next(n1.p) ELSE n1} :
            IF n.err # NoErr
            THEN /\ p' = n.p /\ UNCHANGED target /\ Return(n.err)
            ELSE IF Top.i > 0 /\ n.tok[1] = Ord["]"]
            THEN /\ p' = n.p /\ UNCHANGED target /\ Pop
            ELSE \E tg \in {appendZero(target, Top.path)} :
                 \E r \in {parseVal(n.p, tg, lastElem(tg, Top.path), n.tok)} :
                    /\ p' = r.p
                    /\ target' = r.target
                    /\ IF r.err # NoErr
                       THEN Return(r.err)
                       ELSE Continue([Top EXCEPT !.i = @ + 1], r.call)

Next == Unmarshal \/ ParseStep \/ MessageStep \/ ListStep

(***************************************************************************)
(* Inputs.  A document is a sequence of field occurrences, an occurrence   *)
(* a sequence of atoms: field names, punctuation, and "n" for a number.    *)
(* The k-th number of a document is rendered as the decimal numeral of k.  *)
(***************************************************************************)
MaxOccur == 3

MaxListLen == 2

MaxBody == 3

NameAtoms ==
    {"int", "int8", "int16", "uint8", "uint16", "float", "string",
     "field", "repeated", "bytes", "message", "repeated_message"}

atomBytes(a) ==
    CASE a = "int" -> nInt
      [] a = "int8" -> nInt8
      [] a = "int16" -> nInt16
      [] a = "uint8" -> nUint8
      [] a = "uint16" -> nUint16
      [] a = "float" -> nFloat
      [] a = "string" -> nString
      [] a = "repeated" -> nRepeated
      [] a = "bytes" -> nBytes
      [] a = "field" -> nField
      [] a = "message" -> nMessage
      [] a = "repeated_message" -> nRepeatedMessage
      [] a = "s" -> B(<<"'", "a", "'">>)
      [] OTHER -> B(<<a>>)

\* The decimal numeral of k > 0.
RECURSIVE Dec(_)
Dec(k) == IF k < 10 THEN <<Ord["0"] + k>> ELSE Append(Dec(k \div 10), Ord["0"] + (k % 10))

\* The atoms of a document, in order.
Atoms(doc) == Flatten(doc)

\* The number rendered for atom k of atoms as (its rank among the "n" atoms).
numAt(as, k) == Cardinality({j \in 1..k : as[j] = "n"})

RECURSIVE occStarts(_)
occStarts(doc) ==
    IF doc = <<>> THEN {}
    ELSE LET front == SubSeq(doc, 1, Len(doc) - 1) IN
         occStarts(front) \cup {Len(Flatten(front)) + 1}

\* Occurrences are separated by one space, and so are a number and the field
\* name or number after it (the lexer would read them as one numeric lexeme).
spaceBefore(as, starts, k) ==
    k > 1 /\ (k \in starts \/ (as[k] \in NameAtoms \cup {"n"} /\ as[k - 1] = "n"))

renderDoc(as, starts) ==
    Flatten([k \in 1..Len(as) |->
        (IF spaceBefore(as, starts, k) THEN B(<<" ">>) ELSE <<>>)
            \o (IF as[k] = "n" THEN Dec(numAt(as, k)) ELSE atomBytes(as[k]))])

Render(doc) == renderDoc(Atoms(doc), occStarts(doc))

SeqsUpTo(S, n) == UNION {[1..k -> S] : k \in 0..n}

Bare(name) == <<name, ":", "n">>

ListOf(name, body) == <<name, ":", "[">> \o body \o <<"]">>

\* n, n, ... n: k numbers separated by commas
RECURSIVE commaList(_)
commaList(k) ==
    IF k = 0 THEN <<>> ELSE IF k = 1 THEN <<"n">> ELSE commaList(k - 1) \o <<",", "n">>

\* The bodies of the well-formed lists of up to MaxListLen numbers, with and
\* without a trailing comma.
ListBodies ==
    {commaList(k) : k \in 0..MaxListLen} \cup {commaList(k) \o <<",">> : k \in 1..MaxListLen}

MessageOccs ==
    { <<"message", "{", "}">>,
      <<"message", "{", "field", ":", "n", "}">>,
      <<"message", ":", "{", "field", ":", "n", "field", ":", "n", "}">>,
      <<"repeated_message", "{", "field", ":", "n", "}">>,
      <<"repeated_message", ":", "[", "{", "field", ":", "n", "}", ",", "{", "}", "]">> }

\* Documents of well-formed occurrences of a scalar, a sequence and message
\* fields.
SeqOccs ==
    {Bare("int"), Bare("repeated")}
        \cup {ListOf("repeated", b) : b \in ListBodies}
        \cup MessageOccs

SeqDocs == SeqsUpTo(SeqOccs, MaxOccur) \ {<<>>}

\* Documents of one occurrence whose value is a list literal with any body
\* of numbers, commas and brackets.
ListDocs ==
    { <<ListOf(name, body)>> :
        name \in {"int", "repeated", "bytes"},
        body \in SeqsUpTo({"n", ",", "[", "]"}, MaxBody) }

\* The argument v of Unmarshal: a non-nil pointer to a zero message.
ValidTarget == [ptr |-> TRUE, nil |-> FALSE, ty |-> RootType]

InitWith(s, d) ==
    /\ src = s
    /\ data = d
    /\ target = Zero(s.v.ty)
    /\ p = newParser
    /\ stack = <<>>
    /\ result = [state |-> "init", err |-> NoErr]
    /\ lex = newLexers

Init ==
    \E doc \in SeqDocs \cup ListDocs :
        InitWith([v |-> ValidTarget, doc |-> doc], Render(doc))

Spec == Init /\ [][Next]_vars

(***************************************************************************)
(* Inputs of one numeric field, name:literal.  An integer literal is       *)
(* written from its sign and magnitude, in decimal or in hex; a float      *)
(* literal from its sign, integer part, fraction and exponent.             *)
(***************************************************************************)
MaxMag == 40

Signs == {<<>>, <<"+">>, <<"-">>}

IntFields == {"int8", "int16", "uint8", "uint16"}

\* The magnitudes around the limits of the integer kinds, and the small ones.
Magnitudes ==
    (0..MaxMag) \cup {2 ^ 7 - 1, 2 ^ 7, 2 ^ 7 + 1, 2 ^ 8 - 1, 2 ^ 8, 14 * 16, 15 * 16 - 2,
                      2 ^ 15 - 1, 2 ^ 15, 2 ^ 15 + 1, 2 ^ 16 - 1, 2 ^ 16}

IntParts == {<<>>, <<"0">>, <<"1">>, <<"1", "0">>, <<"0", "0">>, <<"0", "6">>, <<"0", "6", "4", "4">>}

FracParts == {<<>>, <<".">>, <<".", "5">>, <<".", "2", "5">>}

ExpParts == {<<>>, <<"e">>, <<"e", "+">>, <<"E", "-">>, <<"e", "1">>, <<"E", "-", "1">>,
             <<"e", "+", "1", "0">>}

NumDocs ==
    [field : IntFields, sign : Signs, form : {"dec"}, m : Magnitudes,
     prefix : {"x"}, upper : {FALSE}, pad : {0},
     ip : {<<>>}, frac : {<<>>}, ex : {<<>>}]
    \cup
    [field : IntFields, sign : Signs, form : {"hex"}, m : Magnitudes,
     prefix : {"x", "X"}, upper : BOOLEAN, pad : {0, 1},
     ip : {<<>>}, frac : {<<>>}, ex : {<<>>}]
    \cup
    [field : {"float"}, sign : Signs, form : {"float"}, m : {0},
     prefix : {"x"}, upper : {FALSE}, pad : {0},
     ip : IntParts, frac : FracParts, ex : ExpParts]

\* The hex numeral of k >= 0, in upper or lower case.
RECURSIVE Hex(_, _)
Hex(k, upper) ==
    LET d == k % 16
        c == IF d < 10 THEN Ord["0"] + d
             ELSE (IF upper THEN Ord["A"] ELSE Ord["a"]) + (d - 10)
    IN IF k < 16 THEN <<c>> ELSE Append(Hex(k \div 16, upper), c)

RenderNum(doc) ==
    atomBytes(doc.field) \o B(<<":">>) \o B(doc.sign)
        \o (CASE doc.form = "dec" -> Dec(doc.m)
              [] doc.form = "hex" ->
                    B(<<"0", doc.prefix>>) \o [k \in 1..doc.pad |-> Ord["0"]]
                        \o Hex(doc.m, doc.upper)
              [] OTHER -> B(doc.ip \o doc.frac \o doc.ex))

InitNum ==
    \E doc \in NumDocs : InitWith([v |-> ValidTarget, doc |-> doc], RenderNum(doc))

\* A document of one field and one value never enters a message or a list.
NextOneField == Unmarshal \/ ParseStep

SpecNum == InitNum /\ [][NextOneField]_vars

(***************************************************************************)
(* Inputs of one string field, string:'raw', raw being some plain bytes,   *)
(* then one escape sequence or one carriage return, then plain bytes.      *)
(***************************************************************************)
MaxPost == 2

OctChars == {"0", "1", "3", "5", "7"}

HexChars == {"0", "4", "d", "f", "F", "g"}

PostChars == {"f", "0", "[", "\n"}

Escs ==
    [kind : {"none", "cr", "crlf", "bs_r", "bs_cr"}, digits : {<<>>}]
    \cup [kind : {"oct"}, digits : SeqsUpTo(OctChars, 3) \ {<<>>}]
    \cup [kind : {"hex"}, digits : SeqsUpTo(HexChars, 2)]

StrDocs == [pre : {<<>>, <<"a">>}, esc : Escs, post : SeqsUpTo(PostChars, MaxPost)]

escBytes(esc) ==
    CASE esc.kind = "none" -> <<>>
      [] esc.kind = "cr" -> B(<<"\r">>)
      [] esc.kind = "crlf" -> B(<<"\r", "\n">>)
      [] esc.kind = "bs_r" -> B(<<"\\", "r">>)
      [] esc.kind = "bs_cr" -> B(<<"\\", "\r">>)
      [] esc.kind = "oct" -> B(<<"\\">> \o esc.digits)
      [] esc.kind = "hex" -> B(<<"\\", "x">> \o esc.digits)

RenderStr(doc) ==
    nString \o B(<<":", "'">> \o doc.pre) \o escBytes(doc.esc) \o B(doc.post \o <<"'">>)

InitStr ==
    \E doc \in StrDocs : InitWith([v |-> ValidTarget, doc |-> doc], RenderStr(doc))

SpecStr == InitStr /\ [][NextOneField]_vars

(***************************************************************************)
(* What a document says: the values its text denotes, read off its         *)
(* structure and not off its bytes.                                        *)
(***************************************************************************)
Returned == result.state = "returned"

Succeeded == Returned /\ result.err = NoErr

Failed == Returned /\ result.err # NoErr

\* The slot of the target's field with the given name.
Slot(name) == target[lookupField(parserFieldMap, RootType, name)]

\* The numbers of the "n" atoms of occ from atom k on, the first of them
\* being the r-th number of the document.
RECURSIVE ranksIn(_, _, _)
ranksIn(occ, k, r) ==
    IF k > Len(occ) THEN <<>>
    ELSE IF occ[k] = "n" THEN <<r>> \o ranksIn(occ, k + 1, r + 1)
    ELSE ranksIn(occ, k + 1, r)

\* One entry per "{" of occ from atom k on: the number inside the braces, 0
\* for an empty message.
RECURSIVE msgsIn(_, _, _)
msgsIn(occ, k, r) ==
    IF k > Len(occ) THEN <<>>
    ELSE IF occ[k] = "{" THEN <<IF occ[k + 1] = "}" THEN 0 ELSE r>> \o msgsIn(occ, k + 1, r)
    ELSE IF occ[k] = "n" THEN msgsIn(occ, k + 1, r + 1)
    ELSE msgsIn(occ, k + 1, r)

\* The values of all occurrences of the field name in doc, from occurrence
\* j on, in source order: the numbers, or with msgs the messages.
RECURSIVE valuesOf(_, _, _, _, _)
valuesOf(doc, name, msgs, j, r) ==
    IF j > Len(doc) THEN <<>>
    ELSE (IF doc[j][1] # name THEN <<>>
          ELSE IF msgs THEN msgsIn(doc[j], 1, r)
          ELSE ranksIn(doc[j], 1, r))
         \o valuesOf(doc, name, msgs, j + 1, r + Len(ranksIn(doc[j], 1, 1)))

\* The offset in Render(doc) of atom a of the document.
atomOffset(doc, a) ==
    LET as == Atoms(doc)
        starts == occStarts(doc)
    IN Len(renderDoc(SubSeq(as, 1, a - 1), starts))
        + (IF spaceBefore(as, starts, a) THEN 1 ELSE 0)

\* The index among the atoms of the first atom of occurrence j.
occAtom(doc, j) == Len(Flatten(SubSeq(doc, 1, j - 1))) + 1

\* A document of one occurrence name: [ body ].
IsListDoc(doc, name) ==
    /\ Len(doc) = 1
    /\ Len(doc[1]) >= 4
    /\ doc[1][1] = name
    /\ doc[1][3] = "["

BodyOf(doc) == SubSeq(doc[1], 4, Len(doc[1]) - 1)

(***************************************************************************)
(* Repeated fields and list literals                                       *)
(***************************************************************************)
\* C1: after a successful decode a sequence slot holds exactly the elements
\* of all occurrences of its field, bare values and [...] literals alike, in
\* source order.
C1_RepeatedInSourceOrder ==
    Succeeded =>
        /\ Slot(nRepeated).elems = valuesOf(src.doc, "repeated", FALSE, 1, 1)
        /\ [k \in DOMAIN Slot(nRepeatedMessage).elems |->
                Slot(nRepeatedMessage).elems[k].v[1]]
            = valuesOf(src.doc, "repeated_message", TRUE, 1, 1)

\* repeated:[1,2] repeated:3 repeated:[4,5] has been decoded to [1,2,3,4,5].
C1_Witness ==
    /\ Succeeded
    /\ src.doc = <<ListOf("repeated", <<"n", ",", "n">>), Bare("repeated"),
                   ListOf("repeated", <<"n", ",", "n">>)>>
    /\ Slot(nRepeated).elems = <<1, 2, 3, 4, 5>>

ScalarNames == {"int", "message"}

\* The occurrence of message whose body names field twice.
InnerDup == <<"message", ":", "{", "field", ":", "n", "field", ":", "n", "}">>

\* Occurrence j names a scalar field that an earlier occurrence named.
IsSecond(doc, j) ==
    doc[j][1] \in ScalarNames /\ \E i \in 1..(j - 1) : doc[i][1] = doc[j][1]

\* The atom that is the field name of the first second occurrence of a scalar
\* field within one message body of doc; 0 if there is none.
secondNameAtom(doc) ==
    LET hit(j) == IsSecond(doc, j) \/ doc[j] = InnerDup
        js == {j \in 1..Len(doc) : hit(j)}
        j0 == CHOOSE j \in js : \A i \in js : j <= i
    IN IF js = {} THEN 0
       ELSE IF IsSecond(doc, j0) THEN occAtom(doc, j0)
       ELSE occAtom(doc, j0) + 6

\* C2: the second occurrence of a scalar field within one message body fails
\* the decode with a duplicate-field error whose line and column are those of
\* the second occurrence's field-name token.
C2_DuplicateAtSecondName ==
    (Returned /\ secondNameAtom(src.doc) > 0) =>
        /\ result.err.reason = "duplicate field but type is not repeated"
        /\ result.err.line = 1
        /\ result.err.col = atomOffset(src.doc, secondNameAtom(src.doc)) + 1

\* The body is k numbers separated by commas, with or without one trailing
\* comma.
IsCommaList(body, k) ==
    body = commaList(k) \/ (k >= 1 /\ body = commaList(k) \o <<",">>)

\* The body has only numbers and commas, and starts with a comma or has two
\* commas in a row.
HasStrayComma(body) ==
    /\ \A i \in 1..Len(body) : body[i] \in {"n", ","}
    /\ \E i \in 1..Len(body) : body[i] = "," /\ (i = 1 \/ body[i - 1] = ",")

\* C9: a list literal may end with one trailing comma; [] leaves an unset
\* sequence slot empty and non-nil; a list literal that starts with a comma
\* or has two consecutive commas is rejected.
C9_ListLiteralCommas ==
    (Returned /\ IsListDoc(src.doc, "repeated")) =>
        /\ \A k \in 0..Len(BodyOf(src.doc)) :
              IsCommaList(BodyOf(src.doc), k) =>
                  /\ result.err = NoErr
                  /\ Slot(nRepeated) = [nil |-> FALSE, elems |-> [i \in 1..k |-> i]]
        /\ HasStrayComma(BodyOf(src.doc)) => result.err # NoErr

\* repeated:[1,2,] has been decoded to [1, 2].
C9_Witness ==
    /\ Succeeded
    /\ src.doc = <<ListOf("repeated", <<"n", ",", "n", ",">>)>>
    /\ Slot(nRepeated) = [nil |-> FALSE, elems |-> <<1, 2>>]

\* Atom i of the body is a "[" where the list expects an element.
IsElementBracket(body, i) ==
    /\ body[i] = "["
    /\ \/ i = 1
       \/ \E k \in 1..i : SubSeq(body, 1, i - 1) = commaList(k) \o <<",">>

\* C10: a [...] literal for a scalar slot, []byte included, fails the decode
\* whatever its elements are, and so does a [...] literal that is an element
\* of a list.
C10_ListForScalarFails ==
    /\ (Returned /\ (IsListDoc(src.doc, "int") \/ IsListDoc(src.doc, "bytes"))) =>
            /\ result.err.reason = "invalid repeated value"
            /\ target = Zero(RootType)
    /\ (Returned /\ IsListDoc(src.doc, "repeated")) =>
            \A i \in 1..Len(BodyOf(src.doc)) :
                IsElementBracket(BodyOf(src.doc), i) =>
                    result.err.reason = "invalid repeated value"

\* int:[1] has been rejected.
C10_Witness ==
    /\ Failed
    /\ src.doc = <<ListOf("int", <<"n">>)>>
    /\ result.err.reason = "invalid repeated value"
    /\ Slot(nInt) = 0

(***************************************************************************)
(* Numeric literals                                                        *)
(***************************************************************************)
\* The value an integer literal denotes.
ValueOf(doc) == IF doc.sign = <<"-">> THEN -doc.m ELSE doc.m

\* The values the integer kinds hold.
KindValues ==
    [k \in IntFields |->
        CASE k = "int8" -> (-(2 ^ 7))..(2 ^ 7 - 1)
          [] k = "int16" -> (-(2 ^ 15))..(2 ^ 15 - 1)
          [] k = "uint8" -> 0..(2 ^ 8 - 1)
          [] k = "uint16" -> 0..(2 ^ 16 - 1)]

IsIntegerDoc == src.doc.form \in {"dec", "hex"}

FieldSlot == Slot(atomBytes(src.doc.field))

\* C3: for every integer kind and every valid integer literal the decode
\* succeeds and stores the literal's value if and only if the value is within
\* the kind's limits; otherwise it fails with a range error and stores
\* nothing.
C3_IntegerRange ==
    (Returned /\ IsIntegerDoc) =>
        IF ValueOf(src.doc) \in KindValues[src.doc.field]
        THEN result.err = NoErr /\ FieldSlot = ValueOf(src.doc)
        ELSE result.err.reason = "number is out of range" /\ FieldSlot = 0

\* C4: a hex literal of any sign, either prefix and any hex digits, a-f and
\* A-F included, decodes to its value in every integer slot that holds it.
C4_HexLiterals ==
    (Returned /\ src.doc.form = "hex" /\ ValueOf(src.doc) \in KindValues[src.doc.field]) =>
        result.err = NoErr /\ FieldSlot = ValueOf(src.doc)

DecimalDigits == {"0", "1", "2", "3", "4", "5", "6", "7", "8", "9"}

\* The part is absent, or it ends with a digit (".5", "e+10").
AbsentOrDigits(part) == part = <<>> \/ part[Len(part)] \in DecimalDigits

\* C5: for a float slot a literal whose integer part is exactly 0 is
\* accepted with a fraction and/or an exponent; a leading zero followed by
\* more integer digits is rejected; an exponent marker without a digit after
\* it is rejected.
C5_FloatSyntax ==
    (Returned /\ src.doc.form = "float") =>
        /\ ( /\ src.doc.ip = <<"0">>
             /\ AbsentOrDigits(src.doc.frac)
             /\ AbsentOrDigits(src.doc.ex)
             /\ src.doc.frac \o src.doc.ex # <<>> ) => result.err = NoErr
        /\ (Len(src.doc.ip) >= 2 /\ src.doc.ip[1] = "0") => result.err # NoErr
        /\ ~AbsentOrDigits(src.doc.ex) => result.err # NoErr

(***************************************************************************)
(* String escapes                                                          *)
(***************************************************************************)
\* The value of a digit character of the string documents.
DigitOf ==
    [c \in {"0", "1", "3", "4", "5", "7", "d", "f", "F"} |->
        CASE c = "0" -> 0 [] c = "1" -> 1 [] c = "3" -> 3 [] c = "4" -> 4 [] c = "5" -> 5
          [] c = "7" -> 7 [] c = "d" -> 13 [] OTHER -> 15]

\* The characters of the document after the backslash, or after the \x.
AfterEsc == src.doc.esc.digits \o src.doc.post

\* The number of octal digits the escape has: those present, up to three.
RECURSIVE octRun(_)
octRun(cs) == IF cs # <<>> /\ cs[1] \in OctChars THEN 1 + octRun(Tail(cs)) ELSE 0

OctTaken == IF octRun(AfterEsc) > 3 THEN 3 ELSE octRun(AfterEsc)

RECURSIVE numeral(_, _)
numeral(cs, base) ==
    IF cs = <<>> THEN 0
    ELSE (numeral(SubSeq(cs, 1, Len(cs) - 1), base) * base) + DigitOf[cs[Len(cs)]]

\* The string value: what is before the escape, the byte b, what is after
\* the n characters the escape took.
Emitted(b, n) == B(src.doc.pre) \o <<b>> \o B(Drop(AfterEsc, n))

\* C6: a backslash followed by one to three octal digits, as many as are
\* present, emits the byte of that value and leaves the characters after
\* them as they are; a value above 255 is an error.  (A byte above 127 on
\* its own is not UTF-8 and is left out of the statement.)
C6_OctalEscape ==
    (Returned /\ src.doc.esc.kind = "oct") =>
        /\ numeral(SubSeq(AfterEsc, 1, OctTaken), 8) > 255 => result.err # NoErr
        /\ numeral(SubSeq(AfterEsc, 1, OctTaken), 8) < 128 =>
              /\ result.err = NoErr
              /\ Slot(nString) = Emitted(numeral(SubSeq(AfterEsc, 1, OctTaken), 8), OctTaken)

HasTwoHexDigits ==
    /\ Len(AfterEsc) >= 2
    /\ AfterEsc[1] \in DOMAIN DigitOf
    /\ AfterEsc[2] \in DOMAIN DigitOf

HasCR(s) == \E k \in 1..Len(s) : s[k] = Ord["\r"]

\* The string value when the carriage return of the document is dropped.
WithoutCR ==
    B(src.doc.pre) \o (IF src.doc.esc.kind = "crlf" THEN B(<<"\n">>) ELSE <<>>)
        \o B(src.doc.post)

NewlineFollows ==
    src.doc.esc.kind = "crlf" \/ (src.doc.post # <<>> /\ src.doc.post[1] = "\n")

nBogus == B(<<"b", "o", "g", "u", "s">>)

FieldDocNames ==
    {"int", "uint8", "float", "string", "bool", "message", "repeated",
     "repeated_message", "bytes", "field", "bogus", "Int"}

ValueLits ==
    {"true", "false", "str", "int", "frac", "exp", "msg0", "msg1", "list0", "list1"}

FieldDocs == [name : FieldDocNames, colon : BOOLEAN, val : ValueLits, inner : BOOLEAN]

nameBytes(a) ==
    CASE a = "bool" -> nBool
      [] a = "bogus" -> nBogus
      [] a = "Int" -> B(<<"I", "n", "t">>)
      [] OTHER -> atomBytes(a)

valBytes(v) ==
    CASE v = "true" -> B(<<"t", "r", "u", "e">>)
      [] v = "false" -> B(<<"f", "a", "l", "s", "e">>)
      [] v = "str" -> B(<<"'", "a", "'">>)
      [] v = "int" -> B(<<"7">>)
      [] v = "frac" -> B(<<"1", ".", "5">>)
      [] v = "exp" -> B(<<"1", "e", "2">>)
      [] v = "msg0" -> B(<<"{", "}">>)
      [] v = "msg1" -> B(<<"{">>) \o nField \o B(<<":", "7", "}">>)
      [] v = "list0" -> B(<<"[", "]">>)
      [] v = "list1" -> B(<<"[", "7", "]">>)

RenderField(doc) ==
    (IF doc.inner THEN nMessage \o B(<<"{">>) ELSE <<>>)
        \o nameBytes(doc.name)
        \o B(<<IF doc.colon THEN ":" ELSE " ">>)
        \o valBytes(doc.val)
        \o (IF doc.inner THEN B(<<"}">>) ELSE <<>>)

InitField ==
    \E doc \in FieldDocs : InitWith([v |-> ValidTarget, doc |-> doc], RenderField(doc))

SpecField == InitField /\ [][Next]_vars

\* The offsets of the field name and of the value in RenderField(doc).
nameOffset(doc) == IF doc.inner THEN Len(nMessage) + 1 ELSE 0

valOffset(doc) == nameOffset(doc) + Len(nameBytes(doc.name)) + 1

\* The syntax error with this reason at offset k of a one-line input.
ErrAt(reason, k) == [reason |-> reason, line |-> 1, col |-> k + 1]

\* The names the schema of the message being decoded has: those of the
\* nested type inside message{ }, those of the root type outside.
KnownName(doc) ==
    IF doc.inner THEN doc.name = "field"
    ELSE doc.name \notin {"field", "bogus", "Int"}

IsBraceVal(v) == v \in {"msg0", "msg1"}

IsListVal(v) == v \in {"list0", "list1"}

\* The number a brace literal of the inputs holds in its field.
braceNumber(v) == IF v = "msg1" THEN 7 ELSE 0

\* What a field with a brace value decodes to, whatever separates the name
\* from the brace: the error returned and, on success, the target.
BraceErr(doc) ==
    IF ~KnownName(doc) THEN ErrAt("no field named", nameOffset(doc))
    ELSE IF doc.name \in {"message", "repeated_message"} THEN NoErr
    ELSE ErrAt("field should be a struct", valOffset(doc))

BraceTarget(doc) ==
    IF doc.name = "message"
    THEN [Zero(RootType) EXCEPT ![lookupField(parserFieldMap, RootType, nMessage)] =
            [nil |-> FALSE, v |-> <<braceNumber(doc.val)>>]]
    ELSE [Zero(RootType) EXCEPT ![lookupField(parserFieldMap, RootType, nRepeatedMessage)] =
            [nil |-> FALSE,
             elems |-> <<[nil |-> FALSE, v |-> <<braceNumber(doc.val)>>]>>]]

\* C11 (as the decoder has it): a field name followed directly by { decodes
\* exactly as with a colon in between; followed directly by any other value
\* token, [ included, it is rejected with "expecting colon" at that token.
C11_BraceNeedsNoColon ==
    (Returned /\ src.doc \in FieldDocs) =>
        /\ IsBraceVal(src.doc.val) =>
            /\ result.err = BraceErr(src.doc)
            /\ Succeeded => target = BraceTarget(src.doc)
        /\ (~src.doc.colon /\ ~IsBraceVal(src.doc.val) /\ KnownName(src.doc)) =>
            result.err = ErrAt("expecting colon", valOffset(src.doc))

\* message{field:7}, written without a colon, has been decoded.
C11_Witness ==
    /\ Succeeded
    /\ src.doc = [name |-> "message", colon |-> FALSE, val |-> "msg1", inner |-> FALSE]
    /\ Slot(nMessage) = [nil |-> FALSE, v |-> <<7>>]

\* C11 (as stated): a field name followed directly by { or by [ is accepted
\* and decodes as with a colon; followed directly by a string, a number or
\* true/false it is rejected with "expecting colon" at that token.
C11_ColonElision ==
    (Returned /\ src.doc \in FieldDocs) =>
        /\ IsBraceVal(src.doc.val) =>
            /\ result.err = BraceErr(src.doc)
            /\ Succeeded => target = BraceTarget(src.doc)
        /\ (IsListVal(src.doc.val) /\ src.doc.name = "repeated" /\ ~src.doc.inner) =>
            /\ Succeeded
            /\ Slot(nRepeated).elems = (IF src.doc.val = "list1" THEN <<7>> ELSE <<>>)
        /\ (~src.doc.colon /\ ~IsBraceVal(src.doc.val) /\ ~IsListVal(src.doc.val)
                /\ KnownName(src.doc)) =>
            result.err = ErrAt("expecting colon", valOffset(src.doc))

(***************************************************************************)
(* Literal kinds and slot kinds                                            *)
(***************************************************************************)
litKind(v) ==
    CASE v \in {"true", "false"} -> "bool"
      [] v = "str" -> "string"
      [] v = "int" -> "integer"
      [] v \in {"frac", "exp"} -> "fraction"
      [] IsBraceVal(v) -> "message"
      [] OTHER -> "list"

\* The kind of the slot a value of the field is written to: the element,
\* for a repeated field.
slotKind(doc) ==
    IF doc.inner THEN "signed"
    ELSE CASE doc.name \in {"int", "repeated"} -> "signed"
           [] doc.name = "uint8" -> "unsigned"
           [] doc.name = "float" -> "float"
           [] doc.name = "string" -> "string"
           [] doc.name = "bytes" -> "bytes"
           [] doc.name = "bool" -> "bool"
           [] OTHER -> "message"

KindsMatch(lit, slot) ==
    \/ lit = "bool" /\ slot = "bool"
    \/ lit = "string" /\ slot \in {"string", "bytes"}
    \/ lit = "integer" /\ slot \in {"signed", "unsigned", "float"}
    \/ lit = "fraction" /\ slot = "float"
    \/ lit = "message" /\ slot = "message"

C13_UnknownFieldName ==
    (Returned /\ src.doc \in FieldDocs /\ ~KnownName(src.doc)) =>
        /\ result.err = ErrAt("no field named", nameOffset(src.doc))
        /\ p.lexi = nameOffset(src.doc) + Len(nameBytes(src.doc.name))
        /\ p.tok = <<>>

\* message{int:7} has been rejected at int, a name of the root type only.
C13_Witness ==
    /\ Failed
    /\ src.doc = [name |-> "int", colon |-> TRUE, val |-> "int", inner |-> TRUE]
    /\ result.err = ErrAt("no field named", Len(nMessage) + 1)

(***************************************************************************)
(* Targets and schemas.  The argument v of Unmarshal is a pointer to a     *)
(* struct T1 of two fields, the first of which may hold a second struct    *)
(* T2, or it is one of the values Unmarshal refuses.  A field is written   *)
(* from its Go name, its ccl tag (a name and what follows the name) and    *)
(* its type.                                                               *)
(***************************************************************************)
NoTagSpec == [has |-> FALSE, name |-> "", rest |-> <<>>]

TagSpec(name, rest) == [has |-> TRUE, name |-> name, rest |-> rest]

TagRests == {<<>>, <<",">>, <<",", "o">>, <<",", ",">>}

FirstTags == {NoTagSpec} \cup {TagSpec(n, r) : n \in {"x", "-", ""}, r \in TagRests}

SecondTags ==
    {NoTagSpec, TagSpec("x", <<>>), TagSpec("x", <<",", "o">>), TagSpec("-", <<>>),
     TagSpec("A", <<>>), TagSpec("", <<>>)}

T1 == <<"struct", "T1">>

T2 == <<"struct", "T2">>

FirstTypes ==
    {<<"int16">>, T2, <<"ptr">> \o T2, <<"slice">> \o T2, <<"slice", "ptr">> \o T2,
     <<"ptr", "ptr">> \o T2, <<"slice", "slice">> \o T2, <<"ptr">> \o T1}

FieldSpec(go, tag, ty) == [go |-> go, tag |-> tag, ty |-> ty]

Schemas ==
    { [T1 |-> <<FieldSpec("A", t1, ty), FieldSpec(g, t2, <<"int16">>)>>,
       T2 |-> <<FieldSpec("A", t3, <<"int16">>), FieldSpec("B", t4, <<"int16">>)>>] :
        t1 \in FirstTags, ty \in FirstTypes, g \in {"B", "c"}, t2 \in SecondTags,
        t3 \in {NoTagSpec, TagSpec("x", <<>>), TagSpec("x", <<",", "o">>),
                TagSpec("-", <<",", "o">>)},
        t4 \in {NoTagSpec, TagSpec("x", <<>>)} }

PlainSchema ==
    [T1 |-> <<FieldSpec("A", NoTagSpec, <<"int16">>), FieldSpec("B", NoTagSpec, <<"int16">>)>>,
     T2 |-> <<FieldSpec("A", NoTagSpec, <<"int16">>), FieldSpec("B", NoTagSpec, <<"int16">>)>>]

tagOf(ts) ==
    IF ts.has
    THEN Tag((IF ts.name = "" THEN <<>> ELSE B(<<ts.name>>)) \o B(ts.rest))
    ELSE NoTag

\* The struct types a schema declares.
defsOf(sc) ==
    [n \in {"T1", "T2"} |->
        [k \in 1..Len(sc[n]) |-> Field(B(<<sc[n][k].go>>), tagOf(sc[n][k].tag), sc[n][k].ty)]]

\* new(T1), and what Unmarshal refuses: (*T1)(nil), a T1, new(int16) and a
\* nil map.
GoodTarget == [ptr |-> TRUE, nil |-> FALSE, ty |-> T1]

BadTargets ==
    { [ptr |-> TRUE, nil |-> TRUE, ty |-> T1],
      [ptr |-> FALSE, nil |-> FALSE, ty |-> T1],
      [ptr |-> TRUE, nil |-> FALSE, ty |-> <<"int16">>],
      [ptr |-> FALSE, nil |-> TRUE, ty |-> <<"map">>] }

\* Inputs without and with lexical and syntax errors.
TargetInputs == {"empty", "field", "name", "quote", "lexeme"}

inputBytes(in) ==
    CASE in = "empty" -> <<>>
      [] in = "field" -> B(<<"A", ":", "1">>)
      [] in = "name" -> B(<<"A">>)
      [] in = "quote" -> B(<<"'">>)
      [] in = "lexeme" -> B(<<"$">>)

InitTarget ==
    \E tv \in {GoodTarget} \cup BadTargets :
    \E sc \in (IF tv = GoodTarget THEN Schemas ELSE {PlainSchema}) :
    \E in \in TargetInputs :
        InitWith([v |-> tv, doc |-> [schema |-> sc, input |-> in], defs |-> defsOf(sc)],
                 inputBytes(in))

SpecTarget == InitTarget /\ [][NextOneField]_vars

\* What the declarations of a schema say, read off the field specifications.
exportedSpec(fs) == fs.go \in {"A", "B"}

excludedSpec(fs) == ~exportedSpec(fs) \/ (fs.tag.has /\ fs.tag.name = "-")

resolvedName(fs) == IF fs.tag.has THEN fs.tag.name ELSE fs.go

\* rest is empty or a comma and what follows it: an option is a non-empty
\* piece between commas.
optionedSpec(fs) == fs.tag.has /\ \E k \in 2..Len(fs.tag.rest) : fs.tag.rest[k] # ","

\* The struct a field of type ty leads to: "" if none.
childOf(ty) ==
    IF ty \in {T1, <<"ptr">> \o T1, <<"slice">> \o T1, <<"slice", "ptr">> \o T1} THEN "T1"
    ELSE IF ty \in {T2, <<"ptr">> \o T2, <<"slice">> \o T2, <<"slice", "ptr">> \o T2} THEN "T2"
    ELSE ""

childrenOf(sc, n) ==
    {childOf(sc[n][k].ty) : k \in {j \in 1..Len(sc[n]) : ~excludedSpec(sc[n][j])}} \ {""}

reachableFrom(sc, n) ==
    {n} \cup childrenOf(sc, n) \cup UNION {childrenOf(sc, m) : m \in childrenOf(sc, n)}

badType(sc, n) ==
    \/ \E k \in 1..Len(sc[n]) : ~excludedSpec(sc[n][k]) /\ optionedSpec(sc[n][k])
    \/ \E j, k \in 1..Len(sc[n]) :
        /\ j < k
        /\ ~excludedSpec(sc[n][j])
        /\ ~excludedSpec(sc[n][k])
        /\ resolvedName(sc[n][j]) = resolvedName(sc[n][k])

ShouldFail(sc) == \E n \in reachableFrom(sc, "T1") : badType(sc, n)

TargetRefused == ~src.v.ptr \/ src.v.nil \/ Kind(src.v.ty) # "struct"

DerivationErrors == {"unknown option", "multiple fields with name"}

DerivationFailed == Returned /\ result.err.reason \in DerivationErrors

\* C14: when v is not a non-nil pointer to a struct, or the schema of its
\* type cannot be derived, Unmarshal returns that error and the lexer has
\* read nothing of the input, whatever the input is.
C14_TargetErrorBeforeInput ==
    (TargetRefused \/ ShouldFail(src.doc.schema)) =>
        /\ p = newParser
        /\ stack = <<>>
        /\ result.state # "running"
        /\ Returned =>
            /\ result.err.line = 0
            /\ IF TargetRefused
               THEN result.err.reason = "value must be a non-nil pointer to a struct"
               ELSE result.err.reason \in DerivationErrors

\* Unmarshal has refused (*T1)(nil) on an input that does not lex.
C14_Witness ==
    /\ Returned
    /\ src.v = [ptr |-> TRUE, nil |-> TRUE, ty |-> T1]
    /\ src.doc.input = "quote"
    /\ result.err.reason = "value must be a non-nil pointer to a struct"
    /\ p = newParser

\* C15: the derivation fails if and only if a field that is exported and not
\* excluded, in a type reachable from the root through such fields, has a
\* non-empty option or shares its name with another such field of its type.
C15_DerivationFailsIff ==
    (src.v = GoodTarget /\ result.state # "init") =>
        (DerivationFailed <=> ShouldFail(src.doc.schema))

\* The derivation has failed on an option two types down, behind a slice of
\* pointers, the root type itself being clean.
C15_Witness ==
    /\ DerivationFailed
    /\ src.v = GoodTarget
    /\ src.doc.schema.T1[1].ty = <<"slice", "ptr">> \o T2
    /\ ~badType(src.doc.schema, "T1")
    /\ result.err.reason = "unknown option"

(***************************************************************************)
(* Inputs for the lexer: string:q body, the body being any bytes out of    *)
(* the two quotes, the backslash and a letter; and a block comment opened  *)
(* after nothing, a field or a newline, its body any bytes out of the      *)
(* star, the slash, a letter and a space.                                  *)
(***************************************************************************)
MaxQuoteBody == 4

MaxCommentBody == 3

QuoteDocs ==
    [kind : {"quote"}, q : {"'", "\""}, pre : {"none"},
     body : SeqsUpTo({"'", "\"", "\\", "a"}, MaxQuoteBody)]

CommentDocs ==
    [kind : {"comment"}, q : {"'"}, pre : {"none", "field", "newline"},
     body : SeqsUpTo({"*", "/", "x", " "}, MaxCommentBody)]

preBytes(pre) ==
    CASE pre = "none" -> <<>>
      [] pre = "field" -> nInt \o B(<<":", "1", " ">>)
      [] pre = "newline" -> B(<<"\n">>)

RenderLex(doc) ==
    IF doc.kind = "quote"
    THEN nString \o B(<<":", doc.q>>) \o B(doc.body)
    ELSE preBytes(doc.pre) \o B(<<"/", "*">>) \o B(doc.body)

InitLex ==
    \E doc \in QuoteDocs \cup CommentDocs :
        InitWith([v |-> ValidTarget, doc |-> doc], RenderLex(doc))

SpecLex == InitLex /\ [][NextOneField]_vars

\* The comment /* body has no closing star-slash (the star of the opening
\* may be the star of the closing, as the lexer has it).
Unterminated(doc) ==
    LET text == <<"*">> \o doc.body
    IN ~\E k \in 1..(Len(text) - 1) : text[k] = "*" /\ text[k + 1] = "/"

\* C16: end of input inside a block comment is an "unterminated comment"
\* syntax error at the slash that opened the comment; it is not a success
\* and not an index out of range.
C16_UnterminatedComment ==
    (Returned /\ src.doc.kind = "comment" /\ Unterminated(src.doc)) =>
        result.err =
            [reason |-> "unterminated comment",
             line |-> IF src.doc.pre = "newline" THEN 2 ELSE 1,
             col |-> IF src.doc.pre = "field" THEN Len(preBytes("field")) + 1 ELSE 1]

\* Byte k of body is protected: the backslashes right before it are odd in
\* number, so that the last of them pairs with byte k.
protected(body, k) ==
    LET run == CHOOSE r \in 0..(k - 1) :
                    /\ \A i \in (k - r)..(k - 1) : body[i] = "\\"
                    /\ (r < k - 1 => body[k - r - 1] # "\\")
    IN run % 2 = 1

\* The indices of the bytes of body that close a string opened with q.
closers(doc) ==
    {k \in 1..Len(doc.body) : doc.body[k] = doc.q /\ ~protected(doc.body, k)}

firstCloser(doc) == CHOOSE k \in closers(doc) : \A j \in closers(doc) : k <= j

\* The value of the string that ends before byte e of body: a backslash
\* that is not protected stands for nothing by itself, the byte it
\* protects stands for itself ("a" for the bell), and so does any other byte.
quotedValue(body, e) ==
    LET kept == SelectSeq([k \in 1..(e - 1) |-> k],
                          LAMBDA k : body[k] # "\\" \/ protected(body, k))
    IN [n \in 1..Len(kept) |->
            IF body[kept[n]] = "a" /\ protected(body, kept[n]) THEN 7
            ELSE Ord[body[kept[n]]]]

QuoteOffset == Len(nString) + 1

\* C17: a quoted string ends at the first byte equal to its opening quote
\* that no backslash protects; without such a byte the lexer returns
\* "unterminated string" at the opening quote.
C17_StringEnd ==
    (Returned /\ src.doc.kind = "quote") =>
        IF closers(src.doc) = {}
        THEN result.err = ErrAt("unterminated string", QuoteOffset)
        ELSE /\ result.err # ErrAt("unterminated string", QuoteOffset)
             /\ firstCloser(src.doc) = Len(src.doc.body) =>
                    /\ Succeeded
                    /\ Slot(nString) = quotedValue(src.doc.body, Len(src.doc.body))

\* string:'\\' has been decoded to one backslash.
C17_Witness ==
    /\ Succeeded
    /\ src.doc.kind = "quote"
    /\ src.doc.q = "'"
    /\ src.doc.body = <<"\\", "\\", "'">>
    /\ Slot(nString) = <<Ord["\\"]>>

(***************************************************************************)
(* Inputs that end early: the first cut atoms of a well-formed document.   *)
(***************************************************************************)
MaxCutOccur == 2

CutOccs == SeqOccs \cup {<<"string", ":", "s">>}

CutDocs ==
    { [doc |-> d, cut |-> c] :
        d \in SeqsUpTo(CutOccs, MaxCutOccur) \ {<<>>}, c \in 0..(MaxCutOccur * 12) }

\* The atoms the input is written from.
cutAtoms(cd) == SubSeq(Atoms(cd.doc), 1, cd.cut)

RenderCut(cd) == renderDoc(cutAtoms(cd), occStarts(cd.doc))

InitCut ==
    \E cd \in {x \in CutDocs : x.cut <= Len(Atoms(x.doc))} :
        InitWith([v |-> ValidTarget, doc |-> cd], RenderCut(cd))

SpecCut == InitCut /\ [][Next]_vars

\* The number of atoms a among as.
countOf(as, a) == Cardinality({k \in 1..Len(as) : as[k] = a})

\* The input ends where a token must follow: behind a field name or a colon,
\* or inside braces or brackets that are still open.
NeedsToken(as) ==
    /\ as # <<>>
    /\ \/ as[Len(as)] \in NameAtoms \cup {":"}
       \/ countOf(as, "{") > countOf(as, "}")
       \/ countOf(as, "[") > countOf(as, "]")

\* No field that is not repeated is named twice in one message.
NoDuplicate(as) ==
    /\ countOf(as, "int") <= 1
    /\ countOf(as, "string") <= 1
    /\ countOf(as, "message") <= 1
    /\ \A k \in 1..(Len(as) - 6) :
        ~(as[k] = "field" /\ as[k + 3] = "field" /\ as[k + 1] = ":" /\ as[k + 4] = ":")

\* C18: an input that ends where a token must follow fails with a syntax
\* error at the line and column of the end of the input.
C18_EndOfInputPositioned ==
    (Returned /\ NeedsToken(cutAtoms(src.doc)) /\ NoDuplicate(cutAtoms(src.doc))) =>
        /\ result.err.line = 1
        /\ result.err.col = Len(data) + 1

(***************************************************************************)
(* Positions of errors                                                     *)
(***************************************************************************)
\* The escape of a string document is not a valid one: \x without two hex
\* digits, an octal escape of a value above 255, a backslash before a
\* carriage return that no newline follows.
InvalidEscape ==
    \/ src.doc.esc.kind = "hex" /\ ~HasTwoHexDigits
    \/ src.doc.esc.kind = "oct" /\ numeral(SubSeq(AfterEsc, 1, OctTaken), 8) > 255
    \/ src.doc.esc.kind = "bs_cr" /\ ~(src.doc.post # <<>> /\ src.doc.post[1] = "\n")

\* The offset of the backslash in RenderStr(doc).
BackslashOffset == Len(nString) + 2 + Len(src.doc.pre)

\* C19: an invalid escape sequence is reported at the line and column of
\* the backslash that begins it, not at the opening quote of the string.
C19_EscapeErrorAtBackslash ==
    (Returned /\ InvalidEscape) =>
        /\ Failed
        /\ result.err.line = 1
        /\ result.err.col = BackslashOffset + 1

(***************************************************************************)
(* Inputs with an error at a known offset: some pieces of white space,     *)
(* comments and fields, then a token that fails.                           *)
(***************************************************************************)
MaxPieces == 3

Pieces == {"nl", "cr", "tab", "sp", "nel", "blk", "line", "field"}

\* "nel" is U+0085, a space of two bytes; the block comment holds U+00E9.
pieceBytes(pc) ==
    CASE pc = "nl" -> B(<<"\n">>)
      [] pc = "cr" -> B(<<"\r">>)
      [] pc = "tab" -> B(<<"\t">>)
      [] pc = "sp" -> B(<<" ">>)
      [] pc = "nel" -> <<194, 133>>
      [] pc = "blk" -> B(<<"/", "*">>) \o <<195, 169>> \o B(<<"*", "/">>)
      [] pc = "line" -> B(<<"#", "x", "\n">>)
      [] pc = "field" -> nRepeated \o B(<<":", "1", " ">>)

Endings == {"lexeme", "quote", "name", "number", "comma", "inner"}

endingBytes(e) ==
    CASE e = "lexeme" -> B(<<"$">>)
      [] e = "quote" -> B(<<"'">>)
      [] e = "name" -> nBogus \o B(<<":", "1">>)
      [] e = "number" -> nInt \o B(<<":", "1", "A">>)
      [] e = "comma" -> nRepeated \o B(<<":", "[", "1", " ", "2", "]">>)
      [] e = "inner" -> nMessage \o B(<<"{", "\n", "$", "}">>)

\* The offset in endingBytes(e) of the token the error is reported at.
endingErrOffset(e) ==
    CASE e = "number" -> Len(nInt) + 1
      [] e = "comma" -> Len(nRepeated) + 4
      [] e = "inner" -> Len(nMessage) + 2
      [] OTHER -> 0

PosDocs == [pieces : SeqsUpTo(Pieces, MaxPieces), ending : Endings]

piecesBytes(doc) == Flatten([k \in 1..Len(doc.pieces) |-> pieceBytes(doc.pieces[k])])

RenderPos(doc) == piecesBytes(doc) \o endingBytes(doc.ending)

InitPos ==
    \E doc \in PosDocs : InitWith([v |-> ValidTarget, doc |-> doc], RenderPos(doc))

SpecPos == InitPos /\ [][Next]_vars

\* The offset of the error of a document.
ErrOffset == Len(piecesBytes(src.doc)) + endingErrOffset(src.doc.ending)

\* The 1-based indices of the newlines among the first k bytes of the input.
newlinesBefore(k) == {j \in 1..k : data[j] = Ord["\n"]}

lastNewlineBefore(k) ==
    IF newlinesBefore(k) = {} THEN 0
    ELSE CHOOSE j \in newlinesBefore(k) : \A m \in newlinesBefore(k) : m <= j

\* C20: for an error at offset k the line is 1 plus the number of newlines
\* in data[0..k) and the column is 1 plus the number of bytes between the
\* last of them (or the start) and k: carriage returns, tabs and every byte
\* of a multi-byte character count as one column.
C20_LineAndColumn ==
    Returned =>
        /\ result.err.line = 1 + Cardinality(newlinesBefore(ErrOffset))
        /\ result.err.col = 1 + (ErrOffset - lastNewlineBefore(ErrOffset))

\* The error behind a line comment, a block comment with a two-byte
\* character and a carriage return is at line 2, column 8.
C20_Witness ==
    /\ Failed
    /\ src.doc = [pieces |-> <<"line", "blk", "cr">>, ending |-> "lexeme"]
    /\ result.err = [reason |-> "invalid lexeme", line |-> 2, col |-> 8]

(***************************************************************************)
(* Inputs of one field with a string literal for its value, and what       *)
(* follows the literal in the input.                                       *)
(***************************************************************************)
FollowFields == {"bytes", "string", "int", "bool", "repeated"}

\* Base64 without its padding, base64 with it, and a short word.
FollowLits == {"unpadded", "padded", "word"}

Follows == {"none", "space", "field", "brace", "lexeme", "comment", "open"}

FollowDocs == [field : FollowFields, lit : FollowLits, follow : Follows]

followName(f) == IF f = "bool" THEN nBool ELSE atomBytes(f)

litBytes(l) ==
    CASE l = "unpadded" -> B(<<"\"", "d", "G", "V", "z", "d", "A", "o", "\"">>)
      [] l = "padded" -> B(<<"\"", "d", "G", "V", "z", "d", "A", "=", "=", "\"">>)
      [] l = "word" -> B(<<"'", "a", "b", "c", "d", "'">>)

followBytes(f) ==
    CASE f = "none" -> <<>>
      [] f = "space" -> B(<<" ", "\n">>)
      [] f = "field" -> B(<<" ">>) \o nInt16 \o B(<<":", "5">>)
      [] f = "brace" -> B(<<"}">>)
      [] f = "lexeme" -> B(<<" ", "$">>)
      [] f = "comment" -> B(<<" ", "#", "c">>)
      [] f = "open" -> B(<<" ", "'", "x">>)

RenderFollow(doc) ==
    followName(doc.field) \o B(<<":">>) \o litBytes(doc.lit) \o followBytes(doc.follow)

InitFollow ==
    \E doc \in FollowDocs : InitWith([v |-> ValidTarget, doc |-> doc], RenderFollow(doc))

SpecFollow == InitFollow /\ [][NextOneField]_vars

\* The offset of the opening quote of the literal.
LitOffset == Len(followName(src.doc.field)) + 1

\* The literal does not fit its field: the field is no string and no []byte,
\* or it is []byte and the literal is not base64.
LitRejected ==
    \/ src.doc.field \in {"int", "bool", "repeated"}
    \/ src.doc.field = "bytes" /\ src.doc.lit # "padded"

\* C21: the error of a string literal that does not fit its field is at the
\* opening quote of the literal, whatever follows the literal in the input.
C21_StringErrorAtLiteral ==
    (Returned /\ LitRejected) =>
        /\ result.err.reason \in {"bad base64", "field should have type string"}
        /\ result.err.line = 1
        /\ result.err.col = LitOffset + 1

(***************************************************************************)
(* The lexer's cursor and the tokens it returns                            *)
(***************************************************************************)
\* C22: the cursor of the lexer stays within 0..len(data), the token the
\* parser holds is a non-empty slice of data at its recorded offset that
\* ends at or before the cursor, and no index is ever out of range.
C22_LexerWithinBuffer ==
    /\ p.lexi \in 0..Len(data)
    /\ p.err # Panic
    /\ result.err # Panic
    /\ p.tok # <<>> =>
        /\ p.i + Len(p.tok) <= p.lexi
        /\ p.tok = Slice(data, p.i, p.i + Len(p.tok))

(***************************************************************************)
(* Inputs that fail in the middle: well-formed occurrences, then one that  *)
(* fails, then well-formed occurrences again.                              *)
(***************************************************************************)
MaxBefore == 2

MaxAfter == 1

GoodOccs ==
    { Bare("int"), Bare("uint8"), Bare("repeated"),
      ListOf("repeated", <<"n", ",", "n">>),
      <<"message", "{", "field", ":", "n", "}">>,
      <<"repeated_message", "{", "field", ":", "n", "}">> }

\* The failing occurrences name no field of GoodOccs, but for the one that
\* fails inside an element of repeated_message, after the element's field.
InnerFailure == <<"repeated_message", "{", "field", ":", "n", "$", "}">>

BadOccs ==
    { <<"$">>, <<":">>, Bare("bytes"), ListOf("string", <<"n">>),
      <<"float", ":", "[", "]">>, InnerFailure }

\* What follows the failing occurrence.
AfterOccs == {Bare("int"), Bare("uint8"), Bare("repeated")}

\* No scalar field is named by two of the occurrences.
NoScalarTwice(occs) ==
    \A i, j \in 1..Len(occs) :
        (i < j /\ occs[i][1] = occs[j][1]) => occs[i][1] \in {"repeated", "repeated_message"}

PartialDocs ==
    { d \in [before : SeqsUpTo(GoodOccs, MaxBefore), bad : BadOccs,
             after : SeqsUpTo(AfterOccs, MaxAfter)] : NoScalarTwice(d.before) }

WholeDoc(d) == d.before \o <<d.bad>> \o d.after

InitPartial ==
    \E d \in PartialDocs : InitWith([v |-> ValidTarget, doc |-> d], Render(WholeDoc(d)))

SpecPartial == InitPartial /\ [][Next]_vars

\* The value of a scalar slot that the occurrences before the failure name
\* once or never: the number, or zero.
scalarBefore(name) ==
    With(valuesOf(src.doc.before, name, FALSE, 1, 1), LAMBDA vs :
    IF vs = <<>> THEN 0 ELSE vs[1])

\* The numbers of the document before the failing occurrence.
numbersBefore == Len(ranksIn(Flatten(src.doc.before), 1, 1))

\* C23: when the decode fails, the slots written by the fields before the
\* failure hold their decoded values, a field inside the failing message
\* included, and the slots of the fields that only occur after the failure
\* hold what they held before the call.
C23_NoRollbackNoProgress ==
    Returned =>
        /\ Failed
        /\ Slot(nInt) = scalarBefore("int")
        /\ Slot(nUint8) = scalarBefore("uint8")
        /\ Slot(nRepeated).elems = valuesOf(src.doc.before, "repeated", FALSE, 1, 1)
        /\ Slot(nRepeated).nil = (valuesOf(src.doc.before, "repeated", FALSE, 1, 1) = <<>>)
        /\ Slot(nMessage) =
              With(valuesOf(src.doc.before, "message", TRUE, 1, 1), LAMBDA ms :
              IF ms = <<>> THEN [nil |-> TRUE, v |-> <<>>]
              ELSE [nil |-> FALSE, v |-> <<ms[1]>>])
        /\ [k \in DOMAIN Slot(nRepeatedMessage).elems |->
                Slot(nRepeatedMessage).elems[k].v[1]]
            = valuesOf(src.doc.before, "repeated_message", TRUE, 1, 1)
                \o (IF src.doc.bad = InnerFailure THEN <<numbersBefore + 1>> ELSE <<>>)

\* int:1 repeated:[2,3] $ uint8:4 has failed with int 1, repeated [2, 3] and
\* uint8 still zero.
C23_Witness ==
    /\ Failed
    /\ src.doc = [before |-> <<Bare("int"), ListOf("repeated", <<"n", ",", "n">>)>>,
                  bad |-> <<"$">>, after |-> <<Bare("uint8")>>]
    /\ Slot(nInt) = 1
    /\ Slot(nRepeated).elems = <<2, 3>>
    /\ Slot(nUint8) = 0

(***************************************************************************)
(* Inputs of messages within messages, for a target whose root and nested  *)
(* types both have a scalar A and a message B:                             *)
(*   type T1 struct { A int16; B *T2; C []*T2; D []int16 }                 *)
(*   type T2 struct { A int16; B *T2 }                                     *)
(***************************************************************************)
MaxScopeOccur == 3

ScopeSchema ==
    [T1 |-> <<FieldSpec("A", NoTagSpec, <<"int16">>),
              FieldSpec("B", NoTagSpec, <<"ptr">> \o T2),
              FieldSpec("C", NoTagSpec, <<"slice", "ptr">> \o T2),
              FieldSpec("D", NoTagSpec, <<"slice", "int16">>)>>,
     T2 |-> <<FieldSpec("A", NoTagSpec, <<"int16">>),
              FieldSpec("B", NoTagSpec, <<"ptr">> \o T2)>>]

ScopeOccs ==
    { <<"A", ":", "n">>,
      <<"D", ":", "n">>,
      <<"B", "{", "A", ":", "n", "}">>,
      <<"B", "{", "A", ":", "n", " ", "A", ":", "n", "}">>,
      <<"B", "{", "B", "{", "A", ":", "n", "}", "A", ":", "n", "}">>,
      <<"B", "{", "B", "{", "}", "B", "{", "}", "}">>,
      <<"C", "{", "A", ":", "n", "}">>,
      <<"C", ":", "[", "{", "A", ":", "n", "}", ",", "{", "A", ":", "n", "}", "]">>,
      <<"C", "{", "A", ":", "n", " ", "A", ":", "n", "}">> }

ScopeDocs == SeqsUpTo(ScopeOccs, MaxScopeOccur) \ {<<>>}

InitScope ==
    \E doc \in ScopeDocs :
        InitWith([v |-> GoodTarget, doc |-> doc, defs |-> defsOf(ScopeSchema)], Render(doc))

SpecScope == InitScope /\ [][Next]_vars

\* The number of braces open at atom a of as, a itself counted.
braceDepth(as, a) ==
    Cardinality({k \in 1..a : as[k] = "{"}) - Cardinality({k \in 1..a : as[k] = "}"})

\* The message body atom a of as is in: the index of the brace that opened
\* it, 0 for the body of the input.
bodyOf(as, a) ==
    With({k \in 1..a : as[k] = "{" /\ braceDepth(as, k) = braceDepth(as, a)}, LAMBDA ks :
    IF ks = {} THEN 0 ELSE CHOOSE k \in ks : \A j \in ks : j <= k)

\* Two atoms of as name the same scalar field in the same message body.
TwiceInOneBody(as) ==
    \E a, b \in 1..Len(as) :
        /\ a < b
        /\ as[a] \in {"A", "B"}
        /\ as[a] = as[b]
        /\ bodyOf(as, a) = bodyOf(as, b)

DuplicateError == result.err.reason = "duplicate field but type is not repeated"

\* C24: the decode fails with a duplicate-field error exactly when one
\* message body names a scalar field twice; the same name in a parent and in
\* a nested message, or in two elements of a repeated message, is no
\* duplicate, and a sequence field may be named any number of times.
C24_DuplicatePerBody ==
    Returned =>
        IF TwiceInOneBody(Atoms(src.doc)) THEN DuplicateError ELSE Succeeded

\* A:1 B{B{A:2}A:3} C:[{A:4},{A:5}] has been decoded: A is named in five
\* message bodies, once in each.
C24_Witness ==
    /\ Succeeded
    /\ src.doc = << <<"A", ":", "n">>,
                    <<"B", "{", "B", "{", "A", ":", "n", "}", "A", ":", "n", "}">>,
                    <<"C", ":", "[", "{", "A", ":", "n", "}", ",", "{", "A", ":", "n", "}", "]">> >>
    /\ target[1] = 1
    /\ target[2].v[1] = 3
    /\ target[2].v[2].v[1] = 2
    /\ target[3].elems[2].v[1] = 5

(***************************************************************************)
(* Decodes into a target that already holds values.                        *)
(***************************************************************************)
MaxPriorOccur == 2

PriorOccs ==
    { Bare("int"), Bare("repeated"),
      ListOf("repeated", <<>>), ListOf("repeated", <<"n", ",", "n">>),
      <<"message", "{", "}">>, <<"message", "{", "field", ":", "n", "}">>,
      <<"repeated_message", "{", "field", ":", "n", "}">> }

PriorDocs == SeqsUpTo(PriorOccs, MaxPriorOccur)

\* The index in the message struct of the field with the given ccl name.
fieldIndex(name) ==
    CHOOSE k \in 1..Len(StructDefs["message"]) : StructDefs["message"][k].tag.val = name

nestedWith(n) == [nil |-> FALSE, v |-> <<n>>]

\* What the caller left in the target: zero values, or 70 in Int, [80, 90]
\* in Repeated, a message with field 60 in Message and one with field 50 in
\* RepeatedMessage.
PriorTargets ==
    { [Zero(RootType) EXCEPT
          ![fieldIndex(nInt)] = i,
          ![fieldIndex(nRepeated)] = r,
          ![fieldIndex(nMessage)] = m,
          ![fieldIndex(nRepeatedMessage)] = rm] :
        i \in {0, 70},
        r \in {Zero(<<"slice", "int16">>), [nil |-> FALSE, elems |-> <<80, 90>>]},
        m \in {Zero(<<"ptr", "struct", "nested">>), nestedWith(60)},
        rm \in {Zero(<<"slice", "ptr", "struct", "nested">>),
                [nil |-> FALSE, elems |-> <<nestedWith(50)>>]} }

InitPrior ==
    \E doc \in PriorDocs :
    \E prior \in PriorTargets :
        /\ src = [v |-> ValidTarget, doc |-> doc, prior |-> prior]
        /\ data = Render(doc)
        /\ target = prior
        /\ p = newParser
        /\ stack = <<>>
        /\ result = [state |-> "init", err |-> NoErr]
        /\ lex = newLexers

SpecPrior == InitPrior /\ [][Next]_vars

\* The field with index k of the message struct is named by the input.
NamedInDoc(k) ==
    \E j \in 1..Len(src.doc) : atomBytes(src.doc[j][1]) = StructDefs["message"][k].tag.val

PriorSlot(name) == src.prior[fieldIndex(name)]

\* C25: after a successful decode every field that the input does not name
\* holds what it held before the call, a nil pointer and a nil sequence stay
\* nil, a message that is named keeps the fields its body does not name, and
\* a sequence holds its prior elements followed by the decoded ones.
C25_OnlyNamedSlotsChange ==
    Succeeded =>
        /\ \A k \in 1..Len(target) : ~NamedInDoc(k) => target[k] = src.prior[k]
        /\ NamedInDoc(fieldIndex(nRepeated)) =>
              Slot(nRepeated) =
                  [nil |-> FALSE,
                   elems |-> PriorSlot(nRepeated).elems
                                \o valuesOf(src.doc, "repeated", FALSE, 1, 1)]
        /\ [k \in DOMAIN Slot(nRepeatedMessage).elems |->
                Slot(nRepeatedMessage).elems[k].v[1]]
            = [k \in DOMAIN PriorSlot(nRepeatedMessage).elems |->
                    PriorSlot(nRepeatedMessage).elems[k].v[1]]
                \o valuesOf(src.doc, "repeated_message", TRUE, 1, 1)
        /\ (\E j \in 1..Len(src.doc) : src.doc[j] = <<"message", "{", "}">>) =>
              Slot(nMessage) =
                  IF PriorSlot(nMessage).nil THEN nestedWith(0) ELSE PriorSlot(nMessage)

\* repeated:[1,2] message{} has been decoded into a target that held 70,
\* [80, 90], a message and a repeated message.
C25_Witness ==
    /\ Succeeded
    /\ src.doc = <<ListOf("repeated", <<"n", ",", "n">>), <<"message", "{", "}">>>>
    /\ Slot(nInt) = 70
    /\ Slot(nRepeated).elems = <<80, 90, 1, 2>>
    /\ Slot(nMessage) = nestedWith(60)
    /\ Slot(nRepeatedMessage).elems = <<nestedWith(50)>>

(***************************************************************************)
(* Inputs at the limits of 64 bits, for a target                           *)
(*   type T1 struct { A int64; B uint64 }                                  *)
(* A magnitude is 0, 5, 2^63-1, 2^63, 2^63+1, 2^64-1 or 2^64.              *)
(***************************************************************************)
WideSchema ==
    [T1 |-> <<FieldSpec("A", NoTagSpec, <<"int64">>), FieldSpec("B", NoTagSpec, <<"uint64">>)>>,
     T2 |-> <<>>]

WideMags == {"zero", "small", "max63", "min63", "over63", "max64", "over64"}

WideDocs ==
    [field : {"A", "B"}, sign : Signs, form : {"dec", "hex", "HEX"}, pad : {0, 1}, m : WideMags]

decimalOf(m) ==
    CASE m = "zero" -> B(<<"0">>)
      [] m = "small" -> B(<<"5">>)
      [] m = "max63" -> B(<<"9", "2", "2", "3", "3", "7", "2", "0", "3", "6", "8", "5", "4", "7", "7", "5", "8", "0", "7">>)
      [] m = "min63" -> B(<<"9", "2", "2", "3", "3", "7", "2", "0", "3", "6", "8", "5", "4", "7", "7", "5", "8", "0", "8">>)
      [] m = "over63" -> B(<<"9", "2", "2", "3", "3", "7", "2", "0", "3", "6", "8", "5", "4", "7", "7", "5", "8", "0", "9">>)
      [] m = "max64" -> B(<<"1", "8", "4", "4", "6", "7", "4", "4", "0", "7", "3", "7", "0", "9", "5", "5", "1", "6", "1", "5">>)
      [] m = "over64" -> B(<<"1", "8", "4", "4", "6", "7", "4", "4", "0", "7", "3", "7", "0", "9", "5", "5", "1", "6", "1", "6">>)

hexOf(m) ==
    CASE m = "zero" -> B(<<"0">>)
      [] m = "small" -> B(<<"5">>)
      [] m = "max63" -> B(<<"7", "f", "f", "f", "f", "f", "f", "f", "f", "f", "f", "f", "f", "f", "f", "f">>)
      [] m = "min63" -> B(<<"8", "0", "0", "0", "0", "0", "0", "0", "0", "0", "0", "0", "0", "0", "0", "0">>)
      [] m = "over63" -> B(<<"8", "0", "0", "0", "0", "0", "0", "0", "0", "0", "0", "0", "0", "0", "0", "1">>)
      [] m = "max64" -> B(<<"f", "f", "f", "f", "f", "f", "f", "f", "f", "f", "f", "f", "f", "f", "f", "f">>)
      [] m = "over64" -> B(<<"1", "0", "0", "0", "0", "0", "0", "0", "0", "0", "0", "0", "0", "0", "0", "0", "0">>)

RenderWide(doc) ==
    B(<<doc.field, ":">>) \o B(doc.sign)
        \o (IF doc.form = "dec" THEN decimalOf(doc.m)
            ELSE B(<<"0", IF doc.form = "hex" THEN "x" ELSE "X">>)
                    \o [k \in 1..doc.pad |-> Ord["0"]] \o hexOf(doc.m))

InitWide ==
    \E doc \in {d \in WideDocs : d.form = "dec" => d.pad = 0} :
        InitWith([v |-> GoodTarget, doc |-> doc, defs |-> defsOf(WideSchema)], RenderWide(doc))

SpecWide == InitWide /\ [][NextOneField]_vars

Negative(doc) == doc.sign = <<"-">>

\* The literal is within the limits of its slot.
WideInRange(doc) ==
    IF doc.field = "A"
    THEN doc.m \in {"zero", "small", "max63"} \cup (IF Negative(doc) THEN {"min63"} ELSE {})
    ELSE IF Negative(doc) THEN doc.m = "zero" ELSE doc.m # "over64"

\* The 64 bits of the literal's value, when it is within the limits.
WideBits(doc) ==
    CASE doc.m = "zero" -> <<0, 0, 0, 0>>
      [] doc.m = "small" ->
            IF Negative(doc) THEN <<65535, 65535, 65535, 65531>> ELSE <<0, 0, 0, 5>>
      [] doc.m = "max63" ->
            IF Negative(doc) THEN <<32768, 0, 0, 1>> ELSE <<32767, 65535, 65535, 65535>>
      [] doc.m = "min63" -> <<32768, 0, 0, 0>>
      [] doc.m = "over63" -> <<32768, 0, 0, 1>>
      [] doc.m = "max64" -> <<65535, 65535, 65535, 65535>>

WideSlot == target[IF src.doc.field = "A" THEN 1 ELSE 2]

\* C26: a literal at the limits of 64 bits is stored exactly when it is
\* within the limits of its slot, -2^63 as the least int64, and is rejected
\* with nothing stored when it is not; for an unsigned slot a literal with
\* a minus sign is within the limits only when it is zero.
C26_SixtyFourBitLimits ==
    Returned =>
        IF WideInRange(src.doc)
        THEN Succeeded /\ WideSlot = WideBits(src.doc)
        ELSE Failed /\ WideSlot = <<0, 0, 0, 0>>

\* A:-9223372036854775808 has been decoded to the least int64.
C26_Witness ==
    /\ Succeeded
    /\ src.doc = [field |-> "A", sign |-> <<"-">>, form |-> "dec", pad |-> 0, m |-> "min63"]
    /\ target[1] = <<32768, 0, 0, 0>>

(***************************************************************************)
(* Targets whose types refer to themselves and to each other: the two      *)
(* fields of T1 and of T2 are an int16, or T1 or T2 behind a pointer, a    *)
(* slice or a slice of pointers (and T2 itself in T1).                     *)
(***************************************************************************)
Behind(t) == {<<"ptr">> \o t, <<"slice">> \o t, <<"slice", "ptr">> \o t}

GraphTypes1 == {<<"int16">>, T2} \cup Behind(T1) \cup Behind(T2)

GraphTypes2 == {<<"int16">>} \cup Behind(T1) \cup Behind(T2)

GraphSchemas ==
    { [T1 |-> <<FieldSpec("A", NoTagSpec, a1), FieldSpec("B", NoTagSpec, b1)>>,
       T2 |-> <<FieldSpec("A", NoTagSpec, a2), FieldSpec("B", NoTagSpec, b2)>>] :
        a1 \in GraphTypes1, b1 \in GraphTypes1, a2 \in GraphTypes2, b2 \in GraphTypes2 }

InitGraph ==
    \E sc \in GraphSchemas :
    \E in \in {"empty", "field"} :
        InitWith([v |-> GoodTarget, doc |-> [schema |-> sc, input |-> in], defs |-> defsOf(sc)],
                 inputBytes(in))

SpecGraph == InitGraph /\ [][NextOneField]_vars

\* One entry for each field of each type that the root type leads to.
EntriesOf(sc) ==
    { [key |-> structField(<<"struct", n>>, B(<<sc[n][k].go>>)), idx |-> k] :
        n \in reachableFrom(sc, "T1"), k \in 1..2 }

\* C27: on every type graph, types that refer to themselves and to each
\* other included, the derivation of the schema has come to an end once
\* Unmarshal has made its first step, and it has gone through each struct
\* type once: it has returned no error (a second pass over a type would find
\* its fields in the map) and the map has one entry for each field of each
\* type within reach.
C27_DerivationTerminates ==
    result.state # "init" =>
        /\ ~DerivationFailed
        /\ parserFieldMap = EntriesOf(src.doc.schema)

\* The schema has been derived for T1 { A *T1; B []*T2 } and
\* T2 { A []T1; B *T2 }.
C27_Witness ==
    /\ result.state # "init"
    /\ src.doc.schema.T1[1].ty = <<"ptr">> \o T1
    /\ src.doc.schema.T1[2].ty = <<"slice", "ptr">> \o T2
    /\ src.doc.schema.T2[1].ty = <<"slice">> \o T1
    /\ src.doc.schema.T2[2].ty = <<"ptr">> \o T2
    /\ ~DerivationFailed
    /\ Cardinality(parserFieldMap) = 4

(***************************************************************************)
(* Termination                                                             *)
(***************************************************************************)
\* What is left to read: the bytes after the lexer's cursor, and the token
\* that peek has lexed and next has not yet handed out.
Unread == (2 * (Len(data) - p.lexi)) + (IF p.tok # <<>> THEN 1 ELSE 0)

\* C28: Unmarshal returns in the end: every step of the parser after the
\* first either ends the decode, with nil or an error and not in a panic,
\* or takes a token that no step took before, so that less is left to read
\* and the cursor is still within the input.
C28_EveryStepConsumes ==
    [][ \/ result.state = "init"
        \/ result'.state = "returned" /\ result'.err # Panic
        \/ Unread' < Unread /\ p'.lexi <= Len(data) ]_vars

(***************************************************************************)
(* The result of the lexer, once it is end-of-input or an error            *)
(***************************************************************************)
\* The text between the quotes of the literal.
LitText == Slice(litBytes(src.doc.lit), 1, Len(litBytes(src.doc.lit)) - 1)

\* What the decode of a string field returns when the literal is followed by
\* the end of the input or by bytes that are no token.
FollowError ==
    CASE src.doc.follow = "lexeme" -> newSyntaxError(data, Len(data) - 1, "invalid lexeme")
      [] src.doc.follow = "open" -> newSyntaxError(data, Len(data) - 2, "unterminated string")
      [] OTHER -> NoErr

\* C29: once the parser holds end-of-input or an error of the lexer, every
\* later step finds that result again with the cursor where it was; and a
\* lexical error found by the peek after a string literal is not lost: the
\* string is written and the decode returns that error.
C29_LexerResultKept ==
    /\ [][p.err # NoErr => (p'.err = p.err /\ p'.lexi = p.lexi /\ p'.tok = <<>>)]_vars
    /\ []((Returned /\ src.doc.field = "string"
                    /\ src.doc.follow \in {"none", "space", "comment", "lexeme", "open"}) =>
            /\ Slot(nString) = LitText
            /\ result.err = FollowError)

C29_Witness ==
    /\ Returned
    /\ src.doc.field = "string"
    /\ src.doc.follow \in {"lexeme", "open"}
    /\ p.err = result.err
    /\ result.err = FollowError
    /\ Slot(nString) = LitText

(***************************************************************************)
(* The two lexers over the same buffer                                     *)
(***************************************************************************)
MaxBufLen == 4

BufAlphabet ==
    {Ord[c] : c \in {"/", "*", "\"", "'", "\\", "a", "1", " ", "\n", ":", "$", "#"}}

Buffers == UNION {[1..n -> BufAlphabet] : n \in 0..MaxBufLen}

InitTokens ==
    \E buf \in Buffers :
        InitWith([v |-> ValidTarget, doc |-> [kind |-> "buffer"]], buf)

\* One call of lexer.next by a caller that calls until it gets an error.
CursorNext ==
    /\ lex.cur.err = NoErr
    /\ UNCHANGED <<src, data, target, p, stack, result>>
    /\ \E r \in {lexerNext(data, lex.cur.i)} :
       lex' = [lex EXCEPT !.cur =
                 [i |-> r.i,
                  toks |-> IF r.err = NoErr THEN Append(lex.cur.toks, r.tok)
                           ELSE lex.cur.toks,
                  err |-> r.err]]

\* The consumer of tokens(data) asks for the next pair: lexer.tokens runs up
\* to its next yieldTok, or to its end.
TokensResume ==
    /\ lex.push.err = NoErr
    /\ ~lex.push.done
    /\ UNCHANGED <<src, data, target, p, stack, result>>
    /\ \E r \in {tokensTurn(data, lex.push.i)} :
       lex' = [lex EXCEPT !.push =
                 [i |-> r.i,
                  toks |-> IF r.err = NoErr /\ ~r.done THEN Append(lex.push.toks, r.tok)
                           ELSE lex.push.toks,
                  err |-> r.err,
                  done |-> r.done]]

NextTokens == CursorNext \/ TokensResume

SpecTokens == InitTokens /\ [][NextTokens]_vars

CursorEnded == lex.cur.err # NoErr

PushEnded == lex.push.done \/ lex.push.err # NoErr

\* The tokens the two lexers have in common so far are the same tokens, and
\* when both have ended they have the same tokens and ended alike.
LexersAgree ==
    /\ \A k \in 1..Len(lex.cur.toks) :
           k <= Len(lex.push.toks) => lex.cur.toks[k] = lex.push.toks[k]
    /\ (CursorEnded /\ PushEnded) =>
           /\ lex.cur.toks = lex.push.toks
           /\ IF lex.push.done THEN lex.cur.err = errEOF
              ELSE lex.cur.err = lex.push.err

\* C30: over every buffer the two lexers give the same (offset, bytes)
\* tokens, and they end the same way: both at the end of the input, or both
\* with the same syntax error at the same position.
C30_SameTokensSameEnd ==
    /\ LexersAgree
    /\ CursorEnded =>
           \/ lex.cur.err = errEOF
           \/ lex.cur.err.reason \in {"unterminated string", "invalid lexeme"}
    /\ PushEnded =>
           \/ lex.push.done
           \/ lex.push.err.reason \in {"unterminated string", "invalid lexeme"}

====
